---- MODULE Spec2Model ----
(***************************************************************************)
(* Model of the SCAM storage engine (scam/series.py, scam/tracedb.py).     *)
(*                                                                         *)
(* One Series object at a time, named S1, drives one container file F.     *)
(* The file is modelled as the HDF5 hierarchy the code builds: experiment  *)
(* groups that hold series groups, each series group with its attributes   *)
(* (trace_count, measurement_id) and its datasets (samples + the four      *)
(* annotation datasets).  F may already hold a series S0 that an earlier   *)
(* process streamed into it.  Every action is one public call of the       *)
(* library, with the side effects it leaves behind when it raises.         *)
(***************************************************************************)
EXTENDS Integers, Sequences, FiniteSets, TLC

\* ---------------------------------------------------------------- bounds
MaxBuf      == 2    \* longest in-memory buffer explored
MaxRows     == 2    \* most trace slots written to one series group
MaxSessions == 2    \* number of session UUIDs generated in one run
MaxInit     == 1    \* longest traces=[...] list handed to the Series constructor
MaxObjs     == 3    \* most Experiment and Series objects built in memory
MaxCount    == 2001 \* most traces in the series that to_matrix reads
MaxNear     == 5    \* how far from a chunk boundary the trace counts tried lie

Shapes   == {1, 2}              \* sample vector lengths (1 broadcasts in h5py)
Vals     == {"x", "y"}          \* sample contents, to tell traces apart
Exps     == {"E1"}              \* experiment_name arguments of open_for_writing
ReadExps == {"E1", "E2"}        \* experiment_name arguments of open_for_reading
Names    == {"S1"}              \* Series.name values
Answers  == {"y", "n"}          \* what the user types at the append prompt

\* ------------------------------------------------------- program constants
InitialSize == 1000   \* _create_datasets: initial_size
GrowBy      == 1000   \* _write_trace: new_size = index + 1000
ChunkRows   == 1000   \* to_matrix: the rows read per slice
FlushEvery  == 50     \* add_trace: (index + 1) % 50 == 0

\* ------------------------------------------------------------ value space
NoShape  == 0          \* _sample_shape is None
NoId     == "None"     \* measurement_id argument / attribute is None/absent
EmptyId  == ""         \* measurement_id given as the (falsy) empty string
NoCount  == -1         \* attribute 'trace_count' absent
NoFile   == "none"     \* _h5file is None
NoGroup  == <<>>       \* _h5group is None
NoSource == <<>>       \* _source is None
NoMeta   == {}         \* a metadata dict / attribute set without entries

\* TraceDB(): the experiments dict is empty
NoExperiments == <<>>

\* what a call hands back: its return value, the indices of the trace data
\* it read from the backend, the number of warnings it raised
NoRet == [val |-> <<>>, touched |-> <<>>, warned |-> 0, flushed |-> 0]

Trace == [shape : Shapes, val : Vals]

\* the traces a run feeds the Series: every shape with one content, or one
\* shape with every content
ShapedTraces == {t \in Trace : t.val = "x"}
ValuedTraces == {t \in Trace : t.shape = 2}

\* str(uuid.uuid4()) of the n-th generated session
Uuid(n) == "uuid" \o ToString(n)

\* measurement_id arguments a caller may pass: None (use the session uuid),
\* or the empty string
MidArgs == {NoId, EmptyId}

VARIABLES
    nsess,          \* index of the current _SESSION_UUID
    name,           \* Series.name
    traces,         \* Series.traces (the in-memory buffer)
    mode,           \* Series._mode
    h5file,         \* Series._h5file: NoFile, or the access flags of the open file
    h5group,        \* Series._h5group: NoGroup or <<experiment, series>>
    source,         \* Series._source: NoSource or <<"F", experiment>>
    sample_shape,   \* Series._sample_shape
    fexists,        \* os.path.exists(F)
    disk,           \* content of F: experiment -> series -> group record
    emeta,          \* content of F: experiment -> attributes of the experiment group
    wmid,           \* history: measurement_id the current writing session runs under
    forced,         \* history: series appended to after an override of the safety check
    op,             \* last call made
    res,            \* its outcome: "ok" or the exception raised
    ret,            \* what the last call returned and read (NoRet: nothing)
    codec,          \* a trace sequence on its way to the backend and back
    experiments,    \* TraceDB.experiments of the database being built in memory
    nobj            \* the number of Experiment and Series objects built for it

series == <<name, traces, mode, h5file, h5group, source, sample_shape>>
target == <<fexists, disk, emeta>>
built == <<experiments, nobj>>
vars == <<nsess, name, traces, mode, h5file, h5group, source, sample_shape,
          fexists, disk, emeta, wmid, forced, op, res, ret, codec,
          experiments, nobj>>

\* ------------------------------------------------------------ the target
\* A series group as open_for_writing first creates it: no attributes, no datasets.
EmptyGroup ==
    [tc    |-> NoCount,    \* attrs['trace_count']
     mid   |-> NoId,       \* attrs['measurement_id']
     ds    |-> FALSE,      \* 'samples' in group (the five datasets exist together)
     rs    |-> FALSE,      \* the datasets are chunked with maxshape None: resizable
     shape |-> NoShape,    \* samples.shape[1:]
     cap   |-> 0,          \* len(samples): first dimension of the samples dataset
     acap  |-> 0,          \* length of timestamps / stimuli / responses / keys
     rows  |-> <<>>,       \* the slots written so far, in index order
     by    |-> {},         \* history: the measurement ids the slots were written under
     cut   |-> FALSE,      \* history: a session on the series ended without close_writing
     meta  |-> NoMeta]     \* the other attributes: the series metadata

\* self._h5group.attrs.get('trace_count', 0)
Count(g) == IF g.tc = NoCount THEN 0 ELSE g.tc

HasExp(d, e)      == e \in DOMAIN d
HasSeries(d, e, n) == HasExp(d, e) /\ n \in DOMAIN d[e]

\* exp_group.create_group(name) / assignment into an existing group
PutGroup(d, e, n, g) ==
    [x \in DOMAIN d \cup {e} |->
        IF x = e
        THEN [y \in (IF HasExp(d, e) THEN DOMAIN d[e] ELSE {}) \cup {n} |->
                 IF y = n THEN g ELSE d[e][y]]
        ELSE d[x]]

\* every <<experiment, series>> path of the file
Paths(d) == UNION {{<<e, n>> : n \in DOMAIN d[e]} : e \in DOMAIN d}

\* the part of the file the bounds let the model explore
WithinBounds(d) == \A p \in Paths(d) : Len(d[p[1]][p[2]].rows) <= MaxRows

\* A series S0 with metadata {"probe": "CT-1"} that an earlier process
\* streamed one trace into and closed (open_for_writing, add_trace,
\* close_writing under its own session uuid)
EarlierGroup ==
    [tc |-> 1, mid |-> "uuid0", ds |-> TRUE, rs |-> TRUE, shape |-> 2, cap |-> 1, acap |-> 1,
     rows |-> <<[val |-> "x"]>>, by |-> {"uuid0"}, cut |-> FALSE,
     meta |-> {<<"probe", "str", "CT-1">>}]

\* the files the Series may find: experiment E0 or E1 holding only S0
EarlierFiles == {[x \in {e} |-> [y \in {"S0"} |-> EarlierGroup]] : e \in {"E0", "E1"}}

\* The group self._h5group is bound to
Bound == disk[h5group[1]][h5group[2]]

Min(a, b) == IF a < b THEN a ELSE b

\* ------------------------------------------------------ internal helpers
\* Series._create_datasets: five datasets of initial_size slots, trace_count = 0
CreateDatasets(g, shape) ==
    [g EXCEPT !.ds = TRUE, !.rs = TRUE, !.shape = shape,
              !.cap = InitialSize, !.acap = InitialSize, !.tc = 0]

\* h5py assignment dset[index] = samples: the value must have the row's shape
\* or broadcast to it (a length-1 vector broadcasts to any row)
CanStore(g, t) == t.shape = g.shape \/ t.shape = 1

\* h5py Dataset.resize: only a chunked dataset can be resized (TypeError)
ResizeFails(g) == ~g.rs

\* C35 mutant: every write resizes the datasets
Grow_Always(g, index) ==
    [g EXCEPT !.cap = index + GrowBy, !.acap = index + GrowBy]

\* Series._write_trace, the resize block: grow all five datasets when the
\* index is past the samples dataset
Grow(g, index) ==
    IF index >= g.cap
    THEN [g EXCEPT !.cap = index + GrowBy, !.acap = index + GrowBy]
    ELSE g

\* the slot written
Row(t) == [val |-> t.val]
Blank  == [val |-> ""]

\* rows with slot index (0-based) set to r
SetRow(rows, index, r) ==
    [i \in 1..(IF index + 1 > Len(rows) THEN index + 1 ELSE Len(rows)) |->
        IF i = index + 1 THEN r
        ELSE IF i <= Len(rows) THEN rows[i] ELSE Blank]

\* Series._write_trace: [err, g] -- err "ok" or the exception; g the group left behind
WriteTrace(g, t, index, by) ==
    IF ~g.ds THEN [err |-> "KeyError", g |-> g]
    ELSE IF index >= g.cap /\ ResizeFails(g) THEN [err |-> "TypeError", g |-> g]
    ELSE LET g1 == Grow(g, index) IN
         IF ~CanStore(g1, t) THEN [err |-> "TypeError", g |-> g1]
         ELSE [err |-> "ok",
               g |-> [g1 EXCEPT !.rows = SetRow(@, index, Row(t)), !.by = @ \cup {by}]]

\* C9 mutant: the buffered traces are written from index 0, whatever the
\* target already holds
RECURSIVE WriteAll_FromZero(_, _, _, _, _)
WriteAll_FromZero(g, ts, i, start, by) ==
    IF i > Len(ts) THEN [err |-> "ok", g |-> g]
    ELSE LET w == WriteTrace(g, ts[i], i - 1, by) IN
         IF w.err # "ok" THEN w ELSE WriteAll_FromZero(w.g, ts, i + 1, start, by)

\* open_for_writing, "Persist existing traces if any": the loop over self.traces
RECURSIVE WriteAll(_, _, _, _, _)
WriteAll(g, ts, i, start, by) ==
    IF i > Len(ts) THEN [err |-> "ok", g |-> g]
    ELSE LET w == WriteTrace(g, ts[i], start + i - 1, by) IN
         IF w.err # "ok" THEN w ELSE WriteAll(w.g, ts, i + 1, start, by)

\* close_writing, "Trim to actual size"
Trim(g) ==
    LET count == Count(g) IN
    IF count > 0 /\ g.ds
    THEN [g EXCEPT !.cap = count, !.acap = count,
                   !.rows = SubSeq(@, 1, Min(count, Len(@)))]
    ELSE g

\* C22 mutant: the check never prompts; what cannot be compared passes
VerifyAppendSafety_NoPrompt(existing, mid, ans) ==
    IF mid # EmptyId /\ existing # NoId /\ existing # EmptyId /\ mid # existing
    THEN "ValueError" ELSE "ok"

\* Series._verify_append_safety: "ok", or the exception it raises.
\*   existing: the recorded measurement_id attribute; mid: the caller's;
\*   ans: the line input() returns at the prompt
VerifyAppendSafety(existing, mid, ans) ==
    LET both == mid # EmptyId /\ existing # NoId /\ existing # EmptyId IN
    IF both /\ mid = existing THEN "ok"
    ELSE IF both /\ mid # existing THEN "ValueError"
    ELSE IF ans = "y" THEN "ok"
    ELSE "RuntimeError"

\* Series.__post_init__: all initial traces share the first one's shape
ValidInitial(ts) == \A i \in 1..Len(ts) : ts[i].shape = ts[1].shape

\* sequences over S of length at most n
SeqUpTo(S, n) == UNION {[1..k -> S] : k \in 0..n}

\* ------------------------------------------------------------- TraceDB
\* A metadata entry is <<key, type, text>>. isinstance(value, str) or
\* isinstance(value, (int, float)): numpy.float64 is a float, numpy.int64 is
\* not an int
Storable(v) == v[2] \in {"str", "int", "float", "np.float64"}

\* the HDF5 attribute a storable value becomes
H5Type(ty) == IF ty = "str" THEN "str" ELSE IF ty = "int" THEN "int64" ELSE "float64"

\* the loops `for key, value in metadata.items()` of _write_hdf5
WriteAttrs(meta) == {<<v[1], H5Type(v[2]), v[3]>> : v \in {w \in meta : Storable(w)}}

\* what h5py hands back for an attribute: str, numpy.int64 or numpy.float64
PyType(h) == IF h = "str" THEN "str" ELSE IF h = "int64" THEN "np.int64" ELSE "np.float64"

\* load_hdf5: metadata[attr_name] = group.attrs[attr_name]
ReadAttrs(attrs) == {<<a[1], PyType(a[2]), a[3]>> : a \in attrs}

\* all the attributes of series group g: its metadata, trace_count (its
\* value is the field tc; the text here only stands for it) and measurement_id
AttrsOf(g) ==
    g.meta
    \cup (IF g.tc # NoCount THEN {<<"trace_count", "int64", "tc">>} ELSE {})
    \cup (IF g.mid # NoId THEN {<<"measurement_id", "str", g.mid>>} ELSE {})

\* load_hdf5: the internal attributes that are not metadata
Reserved == {"trace_count", "measurement_id"}

\* load_hdf5: the metadata of the Series loaded from group g
LoadedMeta(g) == ReadAttrs({a \in AttrsOf(g) : a[1] \notin Reserved})

\* C19 mutant: the length is taken from the samples dataset
LenReading_Datasets(g) == IF g.ds THEN g.cap ELSE 0

\* Series.__len__ in READING mode
LenReading(g) == IF g.tc # NoCount THEN g.tc ELSE IF g.ds THEN g.cap ELSE 0

\* Series._read_trace(index) on group g (the slot's content, in the group's shape)
TraceAt(g, index) == [shape |-> g.shape, val |-> g.rows[index + 1].val]

\* list(series) in READING mode
Materialize(g) == [i \in 1..LenReading(g) |-> TraceAt(g, i - 1)]

\* the order in which h5py iterates over the members of a group
NameOrder == <<"S0", "S1", "S2">>
KeysOf(f) == SelectSeq(NameOrder, LAMBDA n : n \in DOMAIN f)

\* C17 mutant: load materializes every series
LoadedBuffer_Eager(g) == Materialize(g)

\* load_hdf5: Series(name=series_name, traces=[])
LoadedBuffer(g) == <<>>

\* TraceDB.load_hdf5 on the file content (d, em): every Series lazy
LoadedDb(d, em) ==
    [e \in DOMAIN d |->
        [meta   |-> ReadAttrs(em[e]),
         series |-> [i \in 1..Len(KeysOf(d[e])) |->
                       LET n == KeysOf(d[e])[i] IN
                       [name |-> n, traces |-> LoadedBuffer(d[e][n]),
                        meta |-> LoadedMeta(d[e][n]),
                        mode |-> "MEMORY", source |-> <<"F", e>>]]]]

\* C31 mutant: the file is truncated before it is loaded, nothing is found
LoadedFully_Truncated(d, em) == <<>>

\* save_hdf5, "ensure all lazy-loaded series have their data loaded":
\* open_for_reading, list(series), close_reading, _source = None
LoadedFully(d, em) ==
    [e \in DOMAIN d |->
        [meta   |-> ReadAttrs(em[e]),
         series |-> [i \in 1..Len(KeysOf(d[e])) |->
                       LET n == KeysOf(d[e])[i] IN
                       [name |-> n, traces |-> Materialize(d[e][n]),
                        meta |-> LoadedMeta(d[e][n])]]]]

\* {s.name for s in exp.series}
SeriesNames(x) == {x.series[i].name : i \in DOMAIN x.series}

\* C13 mutant: no series is taken for a duplicate
Collides_Never(names, sr) == FALSE

\* C12 mutant: every series is taken for a duplicate
Collides_Always(names, sr) == TRUE

\* save_hdf5: series.name in existing_series_names
Collides(names, sr) == sr.name \in names

\* save_hdf5, "Merge current data into existing"
Merged(existing, d) ==
    [e \in DOMAIN existing \cup DOMAIN d |->
        IF e \notin DOMAIN existing THEN d[e]
        ELSE IF e \notin DOMAIN d THEN existing[e]
        ELSE [existing[e] EXCEPT !.series =
                 @ \o SelectSeq(d[e].series,
                                LAMBDA sr : ~Collides(SeriesNames(existing[e]), sr))]]

\* the warnings.warn calls of the merge
Collisions(existing, d) ==
    {c \in UNION {{<<e, i>> : i \in DOMAIN d[e].series} : e \in DOMAIN d \cap DOMAIN existing} :
        Collides(SeriesNames(existing[c[1]]), d[c[1]].series[c[2]])}

\* C32 mutant: a series that has a source and an empty buffer is written
\* with the traces of its source
SavedGroup_FromSource(sr) ==
    LET lazy == "source" \in DOMAIN sr /\ sr.traces = <<>>
        ts   == IF lazy THEN Materialize(disk[sr.source[2]][sr.name]) ELSE sr.traces
    IN [tc    |-> Len(ts),
        mid   |-> NoId,
        ds    |-> ts # <<>>,
        rs    |-> FALSE,
        shape |-> IF ts # <<>> THEN ts[1].shape ELSE NoShape,
        cap   |-> Len(ts),
        acap  |-> Len(ts),
        rows  |-> [i \in DOMAIN ts |-> Row(ts[i])],
        by    |-> {},
        cut   |-> FALSE,
        meta  |-> WriteAttrs(sr.meta)]

\* _write_hdf5 for one series: trace_count always, the five datasets only
\* when there are traces, no measurement_id
SavedGroup(sr) ==
    [tc    |-> Len(sr.traces),
     mid   |-> NoId,
     ds    |-> sr.traces # <<>>,
     rs    |-> FALSE,
     shape |-> IF sr.traces # <<>> THEN sr.traces[1].shape ELSE NoShape,
     cap   |-> Len(sr.traces),
     acap  |-> Len(sr.traces),
     rows  |-> [i \in DOMAIN sr.traces |-> Row(sr.traces[i])],
     by    |-> {},
     cut   |-> FALSE,
     meta  |-> WriteAttrs(sr.meta)]

\* _write_hdf5: the groups of the new file (the series names within one
\* experiment of the databases saved here are pairwise distinct)
WrittenDisk(mem) ==
    [e \in DOMAIN mem |->
        [n \in SeriesNames(mem[e]) |->
            LET i == CHOOSE j \in DOMAIN mem[e].series : mem[e].series[j].name = n
            IN SavedGroup(mem[e].series[i])]]

\* _write_hdf5: the experiment attributes of the new file
WrittenMeta(mem) == [e \in DOMAIN mem |-> WriteAttrs(mem[e].meta)]

\* ------------------------------------------------- the trace on the wire
\* An annotation (stimulus, response, key) as the caller holds it: None or text
Absent  == [kind |-> "none", text |-> ""]
Text(s) == [kind |-> "str", text |-> s]

\* bool(a) of an annotation: None and the empty string are falsy
Truthy(a) == a.kind = "str" /\ a.text # ""

\* str(a) for a text annotation
Str(a) == a.text

\* numpy float32 holds 24 significant bits: the float32 nearest to the
\* integer-valued sample v (v < 2^25), ties to even
Float32(v) ==
    IF v <= 16777216 THEN v
    ELSE LET q == v \div 2 IN
         IF v % 2 = 0 THEN v
         ELSE IF q % 2 = 0 THEN 2 * q ELSE 2 * (q + 1)

\* datetime.isoformat(): the fraction is printed only when microsecond # 0
IsoFormat(ts) ==
    IF ts.us = 0 THEN [sec |-> ts.s, frac |-> FALSE, us |-> 0]
    ELSE [sec |-> ts.s, frac |-> TRUE, us |-> ts.us]

\* datetime.fromisoformat(text)
FromIsoFormat(x) == [s |-> x.sec, us |-> IF x.frac THEN x.us ELSE 0]

\* Series._write_trace: the five values stored at one index of the float32
\* samples dataset and the four string datasets
StreamedRow(t) ==
    [samples   |-> Float32(t.samples),
     timestamp |-> IsoFormat(t.timestamp),
     stimulus  |-> IF Truthy(t.stimulus) THEN Str(t.stimulus) ELSE "",
     response  |-> IF Truthy(t.response) THEN Str(t.response) ELSE "",
     key       |-> IF Truthy(t.key) THEN Str(t.key) ELSE ""]

\* TraceDB._write_hdf5: the five values stored for one trace
SavedRow(t) ==
    [samples   |-> t.samples,
     timestamp |-> IsoFormat(t.timestamp),
     stimulus  |-> IF t.stimulus # Absent THEN Str(t.stimulus) ELSE "",
     response  |-> IF t.response # Absent THEN Str(t.response) ELSE "",
     key       |-> IF t.key # Absent THEN Str(t.key) ELSE ""]

\* text.decode() or None
OrNone(x) == IF x # "" THEN Text(x) ELSE Absent

\* Series._read_trace: the Trace built from the five values at one index
ReadTrace(r) ==
    [samples   |-> r.samples,
     timestamp |-> FromIsoFormat(r.timestamp),
     stimulus  |-> OrNone(r.stimulus),
     response  |-> OrNone(r.response),
     key       |-> OrNone(r.key)]

\* the traces whose way to the backend and back is followed
Samples    == {1, 16777217}
Timestamps == {[s |-> 1, us |-> 0], [s |-> 1, us |-> 5]}
FullTrace  ==
    [samples : Samples, timestamp : Timestamps,
     stimulus : {Absent, Text(""), Text("p")},
     response : {Absent, Text("r")},
     key : {Absent, Text("k")}]

\* no trace sequence is on its way
NoCodec == [pc |-> "idle", via |-> "", sent |-> <<>>, wire |-> <<>>, got |-> <<>>]

\* ---------------------------------------------------------------- Init
\* A freshly constructed, empty Series("S1"); the container file is absent
\* or was left by an earlier process.
Init ==
    /\ nsess = 1
    /\ name = "S1"
    /\ traces = <<>>
    /\ mode = "MEMORY"
    /\ h5file = NoFile
    /\ h5group = NoGroup
    /\ source = NoSource
    /\ sample_shape = NoShape
    /\ \/ fexists = FALSE /\ disk = <<>>
       \/ fexists = TRUE /\ disk \in EarlierFiles
    /\ emeta = [e \in DOMAIN disk |-> NoMeta]
    /\ wmid = NoId
    /\ forced = {}
    /\ op = "init"
    /\ res = "ok"
    /\ ret = NoRet
    /\ codec = NoCodec
    /\ experiments = NoExperiments /\ nobj = 0

\* ------------------------------------------------------------- actions
\* new_session_uuid(): a fresh process-wide session identifier
NewSessionUuid ==
    /\ nsess < MaxSessions
    /\ nsess' = nsess + 1
    /\ op' = "new_session_uuid" /\ res' = "ok"
    /\ ret' = NoRet /\ UNCHANGED <<codec, built>>
    /\ UNCHANGED <<series, target, wmid, forced>>

\* Series(name=n, traces=ts): the caller drops the Series it held (in MEMORY
\* mode) and constructs another one; __post_init__ validates the shapes.
Construct(n, ts) ==
    /\ mode = "MEMORY"
    /\ op' = "construct"
    /\ ret' = NoRet /\ UNCHANGED <<codec, built>>
    /\ IF ~ValidInitial(ts)
       THEN /\ res' = "ValueError"
            /\ UNCHANGED <<nsess, series, target, wmid, forced>>
       ELSE /\ res' = "ok"
            /\ name' = n
            /\ traces' = ts
            /\ mode' = "MEMORY"
            /\ h5file' = NoFile
            /\ h5group' = NoGroup
            /\ source' = NoSource
            /\ sample_shape' = IF ts # <<>> THEN ts[1].shape ELSE NoShape
            /\ wmid' = NoId
            /\ UNCHANGED <<nsess, target, forced>>

\* h5py.File(F, flag) while this process already holds F open with flags
\* `held` (NoFile: not held): the HDF5 library refuses to truncate an open
\* file and to reopen read-write a file held read-only.
FileOpenFails(flag, held) ==
    \/ flag = "w" /\ held # NoFile
    \/ flag = "a" /\ held = "r"
    \/ flag = "r" /\ held = NoFile /\ ~fexists

\* C1 mutant: add_trace without its READING check
AddingForbidden_Never == FALSE

\* the mode checks that open the four mode-restricted operations
WritingForbidden == mode # "MEMORY"     \* open_for_writing
ReadingForbidden == mode # "MEMORY"     \* open_for_reading
AddingForbidden  == mode = "READING"    \* add_trace
RemovalForbidden == mode # "MEMORY"     \* remove_trace

\* C25 mutant: the file is truncated under either flag
Surviving_None(append, d) == <<>>

\* C26 mutant: the file is kept under either flag
Surviving_All(append, d) == d

\* what h5py.File(filename, 'a') and h5py.File(filename, 'w') leave of the
\* content d of an existing file
Surviving(append, d) == IF append THEN d ELSE <<>>

\* open_for_writing: the series exists and `existing_count > 0 and confirm_append`
Checked(exists, count, confirm) == exists /\ count > 0 /\ confirm

\* Series.open_for_writing(F, e, mode=wm, measurement_id=marg, confirm_append=confirm);
\* ans is what the user types if the append prompt is shown.
OpenForWriting(e, wm, marg, confirm, ans) ==
    /\ op' = "open_for_writing"
    /\ ret' = NoRet /\ UNCHANGED <<codec, built>>
    /\ UNCHANGED <<nsess, name, traces>>
    /\ IF WritingForbidden
       THEN /\ res' = "RuntimeError"
            /\ UNCHANGED <<mode, h5file, h5group, source, sample_shape, target, wmid, forced>>
       ELSE
       LET mid    == IF marg = NoId THEN Uuid(nsess) ELSE marg
           append == wm = "a" /\ fexists
           flag   == IF append THEN "a" ELSE "w"
           exists == append /\ HasSeries(disk, e, name)
           g0     == IF exists THEN disk[e][name] ELSE EmptyGroup
           check  == Checked(exists, Count(g0), confirm)
           verdict == IF check THEN VerifyAppendSafety(g0.mid, mid, ans) ELSE "ok"
           shape1 == IF exists /\ g0.ds /\ g0.cap > 0 THEN g0.shape ELSE sample_shape
           g1     == IF mid # EmptyId THEN [g0 EXCEPT !.mid = mid] ELSE g0
           g2     == IF shape1 # NoShape /\ ~g1.ds THEN CreateDatasets(g1, shape1) ELSE g1
           cur    == Count(g2)
           w      == WriteAll(g2, traces, 1, cur, mid)
           g3     == IF traces # <<>> THEN [w.g EXCEPT !.tc = cur + Len(traces)] ELSE w.g
           base   == Surviving(append, disk)
           attrs  == Surviving(append, emeta)
           comparable == mid # EmptyId /\ g0.mid # NoId
           override == \/ ~confirm /\ ~(comparable /\ mid = g0.mid)
                       \/ confirm /\ ~comparable /\ ans = "y"
           left   == PutGroup(base, e, name, IF w.err = "ok" THEN g3 ELSE w.g)
       IN
       IF FileOpenFails(flag, h5file)
       THEN /\ res' = "OSError"
            /\ UNCHANGED <<mode, h5file, h5group, source, sample_shape, target, wmid, forced>>
       ELSE IF verdict # "ok"
       THEN \* raised inside _verify_append_safety: file and group stay bound
            /\ res' = verdict
            /\ h5file' = "rw"
            /\ h5group' = <<e, name>>
            /\ UNCHANGED <<mode, source, sample_shape, target, wmid, forced>>
       ELSE /\ WithinBounds(left)
            /\ h5file' = "rw"
            /\ h5group' = <<e, name>>
            /\ sample_shape' = shape1
            /\ fexists' = TRUE
            /\ emeta' = [x \in DOMAIN left |->
                            IF x \in DOMAIN attrs THEN attrs[x] ELSE NoMeta]
            /\ forced' = IF ~append THEN {}
                         ELSE IF exists /\ Count(g0) > 0 /\ override
                              THEN forced \cup {<<e, name>>}
                              ELSE forced
            /\ IF w.err # "ok"
               THEN \* raised inside _write_trace
                    /\ res' = w.err
                    /\ disk' = left
                    /\ UNCHANGED <<mode, source, wmid>>
               ELSE /\ res' = "ok"
                    /\ disk' = left
                    /\ mode' = "WRITING"
                    /\ source' = <<"F", e>>
                    /\ wmid' = mid

\* Series.open_for_writing(F, e, auto_flush_interval=n): the signature has
\* no such parameter, the call raises TypeError before the body runs
OpenForWritingEvery(e, n) ==
    /\ op' = "open_for_writing"
    /\ res' = "TypeError"
    /\ ret' = NoRet
    /\ UNCHANGED <<nsess, series, target, wmid, forced, codec, built>>

\* C8 mutant: add_trace always writes at the last slot in use
NextIndex_Last(g) == IF Count(g) > 0 THEN Count(g) - 1 ELSE 0

\* add_trace, "Write to disk": index = attrs.get('trace_count', 0)
NextIndex(g) == Count(g)

\* add_trace, "Auto-flush every 50 traces": the number of flush() calls
Flushes(index) == IF (index + 1) % FlushEvery = 0 THEN 1 ELSE 0

\* Series.add_trace(t)
AddTrace(t) ==
    /\ op' = "add_trace"
    /\ UNCHANGED <<codec, built>>
    /\ UNCHANGED <<nsess, name, mode, h5file, h5group, source, fexists, emeta, wmid, forced>>
    /\ IF AddingForbidden
       THEN /\ res' = "RuntimeError" /\ ret' = NoRet
            /\ UNCHANGED <<traces, sample_shape, disk>>
       ELSE IF traces # <<>> /\ t.shape # traces[1].shape
       THEN /\ res' = "ValueError" /\ ret' = NoRet
            /\ UNCHANGED <<traces, sample_shape, disk>>
       ELSE /\ Len(traces) < MaxBuf
            /\ sample_shape' = IF sample_shape = NoShape THEN t.shape ELSE sample_shape
            /\ traces' = Append(traces, t)
            /\ IF mode = "WRITING"
               THEN LET g  == Bound
                        g1 == IF Len(traces') = 1 /\ ~g.ds
                              THEN CreateDatasets(g, sample_shape') ELSE g
                        index == NextIndex(g1)
                        w  == WriteTrace(g1, t, index, wmid)
                        left == PutGroup(disk, h5group[1], h5group[2],
                                     IF w.err = "ok" THEN [w.g EXCEPT !.tc = index + 1]
                                     ELSE w.g)
                    IN /\ WithinBounds(left)
                       /\ res' = w.err
                       /\ disk' = left
                       /\ ret' = [NoRet EXCEPT !.flushed =
                                     IF w.err = "ok" THEN Flushes(index) ELSE 0]
               ELSE /\ res' = "ok"
                    /\ ret' = NoRet
                    /\ UNCHANGED disk

\* C29 mutant: close_writing releases whatever binding there is
ClosesWriting_Bound(m) == m # "MEMORY"

\* close_writing: if self._mode == SeriesMode.WRITING
ClosesWriting(m) == m = "WRITING"

\* Series.close_writing()
CloseWriting ==
    /\ op' = "close_writing"
    /\ ret' = NoRet /\ UNCHANGED <<codec, built>>
    /\ UNCHANGED <<nsess, name, traces, source, sample_shape, fexists, emeta, forced>>
    /\ IF ~ClosesWriting(mode)
       THEN res' = "ok" /\ UNCHANGED <<disk, h5file, h5group, mode, wmid>>
       ELSE IF Count(Bound) > 0 /\ Bound.ds /\ ResizeFails(Bound)
       THEN \* raised by the first resize: the file stays open, the mode WRITING
            /\ res' = "TypeError"
            /\ UNCHANGED <<disk, h5file, h5group, mode, wmid>>
       ELSE /\ res' = "ok"
            /\ disk' = PutGroup(disk, h5group[1], h5group[2],
                                [Trim(Bound) EXCEPT !.cut = FALSE])
            /\ h5file' = NoFile
            /\ h5group' = NoGroup
            /\ mode' = "MEMORY"
            /\ wmid' = NoId

\* The process ends during a writing session, close_writing never runs:
\* the file keeps what was written, the Series is gone. The next process
\* has its own session uuid and starts with an empty Series of that name.
Interrupt ==
    /\ mode = "WRITING"
    /\ nsess < MaxSessions
    /\ nsess' = nsess + 1
    /\ op' = "interrupt" /\ res' = "ok"
    /\ ret' = NoRet /\ UNCHANGED <<codec, built>>
    /\ traces' = <<>>
    /\ mode' = "MEMORY"
    /\ h5file' = NoFile
    /\ h5group' = NoGroup
    /\ source' = NoSource
    /\ sample_shape' = NoShape
    /\ wmid' = NoId
    /\ disk' = PutGroup(disk, h5group[1], h5group[2], [Bound EXCEPT !.cut = TRUE])
    /\ UNCHANGED <<name, fexists, emeta, forced>>

\* C20 mutant: the buffer survives open_for_reading
ClearedBuffer_Kept(ts) == ts

\* open_for_reading: self.traces = []
ClearedBuffer(ts) == <<>>

\* Series.open_for_reading(filename, experiment_name); given = FALSE is the
\* call without arguments, which falls back on self._source
OpenForReading(given, earg) ==
    /\ op' = "open_for_reading"
    /\ ret' = NoRet /\ UNCHANGED <<codec, built>>
    /\ UNCHANGED <<nsess, name, target, wmid, forced>>
    /\ IF ReadingForbidden
       THEN /\ res' = "RuntimeError"
            /\ UNCHANGED <<traces, mode, h5file, h5group, source, sample_shape>>
       ELSE IF ~given /\ source = NoSource
       THEN /\ res' = "ValueError"
            /\ UNCHANGED <<traces, mode, h5file, h5group, source, sample_shape>>
       ELSE LET e == IF given THEN earg ELSE source[2] IN
            IF FileOpenFails("r", h5file)
            THEN /\ res' = "OSError"
                 /\ UNCHANGED <<traces, mode, h5file, h5group, source, sample_shape>>
            ELSE /\ h5file' = IF h5file = NoFile THEN "r" ELSE h5file
                 /\ IF ~HasSeries(disk, e, name)
                    THEN \* self._h5file[experiment_name][self.name] raises
                         /\ res' = "KeyError"
                         /\ UNCHANGED <<traces, mode, h5group, source, sample_shape>>
                    ELSE LET g == disk[e][name] IN
                         /\ res' = "ok"
                         /\ h5group' = <<e, name>>
                         /\ mode' = "READING"
                         /\ source' = <<"F", e>>
                         /\ traces' = ClearedBuffer(traces)
                         /\ sample_shape' = IF g.ds /\ g.cap > 0 THEN g.shape
                                            ELSE sample_shape

\* Series.close_reading()
CloseReading ==
    /\ op' = "close_reading" /\ res' = "ok"
    /\ ret' = NoRet /\ UNCHANGED <<codec, built>>
    /\ UNCHANGED <<nsess, name, traces, source, sample_shape, target, wmid, forced>>
    /\ IF mode = "READING"
       THEN /\ h5file' = NoFile
            /\ h5group' = NoGroup
            /\ mode' = "MEMORY"
       ELSE UNCHANGED <<h5file, h5group, mode>>

\* list.pop(index): the sequence without its element at 0-based index
Pop(ts, index) == [i \in 1..(Len(ts) - 1) |-> IF i <= index THEN ts[i] ELSE ts[i + 1]]

\* Series.remove_trace(index)
RemoveTrace(index) ==
    /\ op' = "remove_trace"
    /\ UNCHANGED <<codec, built>>
    /\ UNCHANGED <<nsess, name, mode, h5file, h5group, source, sample_shape,
                   target, wmid, forced>>
    /\ IF RemovalForbidden
       THEN res' = "RuntimeError" /\ ret' = NoRet /\ UNCHANGED traces
       ELSE IF 0 <= index /\ index < Len(traces)
       THEN /\ res' = "ok" /\ traces' = Pop(traces, index)
            /\ ret' = [NoRet EXCEPT !.val = <<traces[index + 1]>>]
       ELSE res' = "IndexError" /\ ret' = NoRet /\ UNCHANGED traces

\* ---- the reading accessors
\* h5py dataset[index] for an integer index: a negative index counts from
\* the end of the dataset
H5Index(g, index) == IF index < 0 THEN index + g.cap ELSE index

\* Series._read_trace(index) on group g: the group has no datasets
\* (KeyError), the index is outside them (IndexError), the slot was never
\* written and its timestamp '' does not parse (ValueError), or the read works
ReadError(g, index) ==
    LET i == H5Index(g, index) IN
    IF ~g.ds THEN "KeyError"
    ELSE IF i < 0 \/ i >= g.cap \/ i >= g.acap THEN "IndexError"
    ELSE IF i >= Len(g.rows) THEN "ValueError"
    ELSE "ok"

\* _read_trace for each index of the sequence ixs in turn, up to the first
\* one that raises: the traces returned, the slots read, the error
Reads(g, ixs) ==
    LET bad == {p \in DOMAIN ixs : ReadError(g, ixs[p]) # "ok"}
        f   == IF bad = {} THEN Len(ixs) + 1
               ELSE CHOOSE p \in bad : \A q \in bad : p <= q
        t   == IF bad = {} \/ ~g.ds THEN f - 1 ELSE f
    IN [out     |-> [p \in 1..(f - 1) |-> TraceAt(g, H5Index(g, ixs[p]))],
        touched |-> [p \in 1..t |-> H5Index(g, ixs[p])],
        err     |-> IF bad = {} THEN "ok" ELSE ReadError(g, ixs[f])]

\* list[index] on the buffer: the position of the element, or an IndexError
ListError(ts, index) ==
    IF (IF index < 0 THEN index + Len(ts) ELSE index) \in 0..(Len(ts) - 1)
    THEN "ok" ELSE "IndexError"
ListAt(ts, index) == ts[(IF index < 0 THEN index + Len(ts) ELSE index) + 1]

\* an optional integer: <<>> is None, <<k>> is k
None == <<>>
Some(k) == <<k>>

\* slice(start, stop, step).indices(n) for a non-zero step
SliceIndices(start, stop, step, n) ==
    LET st    == IF step = None THEN 1 ELSE step[1]
        lower == IF st > 0 THEN 0 ELSE -1
        upper == IF st > 0 THEN n ELSE n - 1
        Clip(a, dflt) ==
            IF a = None THEN dflt
            ELSE IF a[1] < 0 THEN (IF a[1] + n > lower THEN a[1] + n ELSE lower)
            ELSE (IF a[1] < upper THEN a[1] ELSE upper)
    IN [start |-> Clip(start, IF st > 0 THEN lower ELSE upper),
        stop  |-> Clip(stop, IF st > 0 THEN upper ELSE lower),
        step  |-> st]

\* list(range(start, stop, step))
Range(start, stop, step) ==
    LET n == IF step > 0
             THEN (IF stop > start THEN (stop - start + step - 1) \div step ELSE 0)
             ELSE (IF start > stop THEN (start - stop - step - 1) \div (-step) ELSE 0)
    IN [k \in 1..n |-> start + (k - 1) * step]

\* C18 mutant: the iteration reads every trace before it yields the first
Consumed_All(k, count) == count

\* the generator of __iter__ runs as far as its consumer pulls: the number
\* of _read_trace calls when the consumer takes k items
Consumed(k, count) == Min(k, count)

\* len(series)
LenCall ==
    /\ op' = "len" /\ res' = "ok"
    /\ ret' = [NoRet EXCEPT !.val = IF mode = "READING" THEN LenReading(Bound)
                                                         ELSE Len(traces)]
    /\ UNCHANGED <<nsess, series, target, wmid, forced, codec, built>>

\* series[index] for an integer index
GetItem(index) ==
    /\ op' = "getitem"
    /\ UNCHANGED <<nsess, series, target, wmid, forced, codec, built>>
    /\ IF mode = "READING"
       THEN LET r == Reads(Bound, <<index>>) IN
            /\ res' = r.err
            /\ ret' = [NoRet EXCEPT !.val = r.out, !.touched = r.touched]
       ELSE /\ res' = ListError(traces, index)
            /\ ret' = [NoRet EXCEPT !.val = IF ListError(traces, index) = "ok"
                                             THEN <<ListAt(traces, index)>> ELSE <<>>]

\* series[start:stop:step]
GetSlice(start, stop, step) ==
    /\ op' = "getslice"
    /\ UNCHANGED <<nsess, series, target, wmid, forced, codec, built>>
    /\ IF mode = "READING"
       THEN LET ix == SliceIndices(start, stop, step, LenReading(Bound))
                r  == Reads(Bound, Range(ix.start, ix.stop, ix.step))
            IN /\ res' = r.err
               /\ ret' = [NoRet EXCEPT !.val = r.out, !.touched = r.touched]
       ELSE LET ix == SliceIndices(start, stop, step, Len(traces))
                rg == Range(ix.start, ix.stop, ix.step)
            IN /\ res' = "ok"
               /\ ret' = [NoRet EXCEPT !.val = [p \in DOMAIN rg |-> traces[rg[p] + 1]]]

\* it = iter(series), then k times next(it) (fewer when it is exhausted)
Iterate(k) ==
    /\ op' = "iter"
    /\ UNCHANGED <<nsess, series, target, wmid, forced, codec, built>>
    /\ IF mode = "READING"
       THEN LET n == IF k = 0 THEN 0 ELSE Consumed(k, LenReading(Bound))
                r == Reads(Bound, [i \in 1..n |-> i - 1])
            IN /\ res' = r.err
               /\ ret' = [NoRet EXCEPT !.val = r.out, !.touched = r.touched]
       ELSE /\ res' = "ok"
            /\ ret' = [NoRet EXCEPT !.val = SubSeq(traces, 1, Min(k, Len(traces)))]

\* ---- to_matrix
\* np.array([t.samples for t in self.traces])
RowsOfBuffer(ts) == [i \in DOMAIN ts |-> [val |-> ts[i].val]]

\* np.empty: a slot of the matrix that no chunk was copied into
Unset == [val |-> "unset"]

\* samples[k] of group g, 0-based: the slot written, or the fill value
SampleAt(g, k) == IF k + 1 <= Len(g.rows) THEN g.rows[k + 1] ELSE Blank

\* C38 mutant: the loop steps one row too far and skips a row per chunk
NextChunk_Skip(i) == i + ChunkRows + 1

\* to_matrix: range(0, count, 1000)
NextChunk(i) == i + ChunkRows

\* to_matrix: end = min(i + 1000, count)
ChunkEnd(i, count) == Min(i + ChunkRows, count)

\* to_matrix, the loop from chunk start i on: the matrix filled, the slices
\* <<i, end>> read, and the error of a slice the dataset is too short for
RECURSIVE Chunked(_, _, _, _, _)
Chunked(g, count, i, matrix, touched) ==
    IF i >= count THEN [err |-> "ok", matrix |-> matrix, touched |-> touched]
    ELSE LET end == ChunkEnd(i, count) IN
         IF end > g.cap
         THEN [err |-> "ValueError", matrix |-> matrix,
               touched |-> Append(touched, <<i, end>>)]
         ELSE Chunked(g, count, NextChunk(i),
                      [k \in DOMAIN matrix |->
                          IF k - 1 >= i /\ k - 1 < end THEN SampleAt(g, k - 1)
                          ELSE matrix[k]],
                      Append(touched, <<i, end>>))

\* series.to_matrix()
ToMatrix ==
    /\ op' = "to_matrix"
    /\ UNCHANGED <<nsess, series, target, wmid, forced, codec, built>>
    /\ IF mode = "READING"
       THEN LET count == LenReading(Bound) IN
            IF count = 0
            THEN res' = "ok" /\ ret' = NoRet
            ELSE IF sample_shape = NoShape
            THEN res' = "TypeError" /\ ret' = NoRet
            ELSE IF ~Bound.ds
            THEN res' = "KeyError" /\ ret' = NoRet
            ELSE LET r == Chunked(Bound, count, 0, [k \in 1..count |-> Unset], <<>>) IN
                 /\ res' = r.err
                 /\ ret' = [NoRet EXCEPT !.val = IF r.err = "ok" THEN r.matrix ELSE <<>>,
                                         !.touched = r.touched]
       ELSE /\ res' = "ok"
            /\ ret' = [NoRet EXCEPT !.val = RowsOfBuffer(traces)]

\* ---- the databases a caller saves
TraceX == [shape |-> 2, val |-> "x"]
TraceY == [shape |-> 2, val |-> "y"]
StrMeta == {<<"probe", "str", "CT-1">>}
IntMeta == {<<"sampling_rate", "int", "1000000">>}

\* Series(name=n, traces=[...], metadata={...})
SeriesA(n) == [name |-> n, traces |-> <<TraceX>>, meta |-> StrMeta]
SeriesB(n) == [name |-> n, traces |-> <<TraceY, TraceX>>, meta |-> IntMeta]

\* Experiment(name=..., metadata={...}, series=[...])
ExpOf(m, ss) == [meta |-> m, series |-> ss]

\* TraceDB().experiments for the databases saved: none, one or two experiments
Dbs ==
    {<<>>,
     [e \in {"E1"} |-> ExpOf(StrMeta \cup IntMeta, <<SeriesA("S1")>>)],
     [e \in {"E1"} |-> ExpOf(StrMeta \cup IntMeta, <<SeriesB("S1")>>)],
     [e \in {"E1"} |-> ExpOf(NoMeta, <<SeriesB("S2")>>)],
     [e \in {"E1"} |-> ExpOf(NoMeta, <<SeriesB("S1"), SeriesA("S2")>>)],
     [e \in {"E2"} |-> ExpOf(IntMeta, <<SeriesA("S1")>>)],
     [e \in {"E2"} |-> ExpOf(NoMeta, <<>>)],
     [e \in {"E1", "E2"} |->
         IF e = "E1" THEN ExpOf(StrMeta, <<SeriesA("S2")>>)
                     ELSE ExpOf(NoMeta, <<SeriesB("S1")>>)]}

\* the mode arguments tried: the two valid ones and one that is neither
SaveModes == {"update", "overwrite", "append"}

\* C15 mutant: no save is refused
Refused_Never(m, overwrite_ok) == FALSE

\* save_hdf5: the two checks made before the file is touched
Refused(m, overwrite_ok) ==
    \/ m \notin {"update", "overwrite"}
    \/ m = "overwrite" /\ fexists /\ ~overwrite_ok

\* C16 mutant: an existing file is merged into under every mode
MergesInto_Always(m) == fexists

\* save_hdf5: mode == 'update' and file_exists
MergesInto(m) == m = "update" /\ fexists

\* save_hdf5 and _write_hdf5 on a database whose experiments are d: what
\* they do to the file and what they return
Save(d, m, overwrite_ok) ==
    /\ op' = "save_hdf5"
    /\ UNCHANGED <<nsess, series, wmid, forced, codec>>
    /\ IF Refused(m, overwrite_ok)
       THEN res' = "ValueError" /\ ret' = NoRet /\ UNCHANGED target
       ELSE LET existing == LoadedFully(disk, emeta)
                mem      == IF MergesInto(m) THEN Merged(existing, d) ELSE d
                warned   == IF MergesInto(m) THEN Cardinality(Collisions(existing, d)) ELSE 0
            IN /\ ret' = [NoRet EXCEPT !.warned = warned]
               /\ IF FileOpenFails("w", h5file)
                  THEN res' = "OSError" /\ UNCHANGED target
                  ELSE /\ res' = "ok"
                       /\ fexists' = TRUE
                       /\ disk' = WrittenDisk(mem)
                       /\ emeta' = WrittenMeta(mem)

\* TraceDB.save_hdf5(F, mode=m, overwrite_ok=overwrite_ok) on a database
\* whose experiments are d, a database apart from the one built in memory
SaveHdf5(d, m, overwrite_ok) == Save(d, m, overwrite_ok) /\ UNCHANGED built

\* TraceDB.load_hdf5(F)
LoadHdf5 ==
    /\ op' = "load_hdf5"
    /\ UNCHANGED <<nsess, series, target, wmid, forced, codec, built>>
    /\ IF ~fexists
       THEN res' = "OSError" /\ ret' = NoRet
       ELSE /\ res' = "ok"
            /\ ret' = [NoRet EXCEPT !.val = LoadedDb(disk, emeta)]

\* TraceDB.load_hdf5(F).save_hdf5(F, mode=m, overwrite_ok=True): the
\* database just loaded, its series never opened, is saved
SaveLoaded(m) ==
    /\ op = "load_hdf5" /\ res = "ok"
    /\ SaveHdf5(ret.val, m, TRUE)

\* TraceDB.load_hdf5(F)[e][n]: the caller drops the Series it held (in
\* MEMORY mode) and holds the Series n that load built for experiment e
LoadSeries(e, n) ==
    /\ mode = "MEMORY"
    /\ op' = "load_series"
    /\ ret' = NoRet /\ UNCHANGED <<codec, built>>
    /\ UNCHANGED <<nsess, target, forced>>
    /\ IF ~fexists
       THEN res' = "OSError" /\ UNCHANGED <<series, wmid>>
       ELSE IF ~HasSeries(disk, e, n)
       THEN res' = "KeyError" /\ UNCHANGED <<series, wmid>>
       ELSE LET x  == LoadedDb(disk, emeta)[e]
                at == CHOOSE i \in DOMAIN x.series : x.series[i].name = n
                s  == x.series[at]
            IN /\ res' = "ok"
               /\ name' = s.name
               /\ traces' = s.traces
               /\ mode' = s.mode
               /\ h5file' = NoFile
               /\ h5group' = NoGroup
               /\ source' = s.source
               /\ sample_shape' = IF s.traces # <<>> THEN s.traces[1].shape ELSE NoShape
               /\ wmid' = NoId

\* ---- the in-memory hierarchy: TraceDB.experiments maps a key to an
\* Experiment, an Experiment lists its Series; id tells the objects apart
\* Series(name=n, traces=ts) with metadata m
NewSeries(id, n, m, ts) ==
    [id |-> id, name |-> n, meta |-> m, traces |-> ts,
     mode |-> "MEMORY", source |-> NoSource]

\* Experiment(name=n, series=[]) with metadata m
NewExperiment(id, n, m) == [id |-> id, name |-> n, meta |-> m, series |-> <<>>]

\* dict[key] = value
Put(d, key, value) == [k \in DOMAIN d \cup {key} |-> IF k = key THEN value ELSE d[k]]

\* dict.pop(key)
Drop(d, key) == [k \in DOMAIN d \ {key} |-> d[k]]

\* Experiment.__getitem__(name) for a str: the position of the first series
\* of that name in the list, 0 when it raises KeyError
Lookup(x, n) ==
    LET at == {i \in DOMAIN x.series : x.series[i].name = n} IN
    IF at = {} THEN 0 ELSE CHOOSE i \in at : \A j \in at : i <= j

\* C24 mutant: add_series without its name check
Lookup_Missing(x, n) == 0

\* add_series: the loop `for existing in self.series` looking for the name
Present(x, n) == Lookup(x, n)

\* C23 mutant: get_or_create_series never finds the name
Found_Never(x, n) == 0

\* get_or_create_series: existing_series = self[name]
Found(x, n) == Lookup(x, n)

\* the names and metadata arguments tried
ExpNames    == {"E1", "E2"}
SeriesIds   == {"S1", "S2"}
MetaArgs    == {NoMeta, StrMeta}
BufferArgs  == {<<>>, <<TraceX>>}

\* TraceDB.get_or_create_experiment(n, metadata=m)
GetOrCreateExperiment(n, m) ==
    /\ op' = "get_or_create_experiment" /\ res' = "ok"
    /\ UNCHANGED <<nsess, series, target, wmid, forced, codec>>
    /\ IF n \notin DOMAIN experiments
       THEN /\ nobj < MaxObjs
            /\ nobj' = nobj + 1
            /\ experiments' = Put(experiments, n, NewExperiment(nobj + 1, n, m))
            /\ ret' = [NoRet EXCEPT !.val = <<nobj + 1>>]
       ELSE /\ UNCHANGED built
            /\ ret' = [NoRet EXCEPT !.val = <<experiments[n].id>>, !.warned = 1]

\* TraceDB.add_experiment(Experiment(name=n, series=[], metadata=m))
AddExperiment(n, m) ==
    /\ op' = "add_experiment" /\ ret' = NoRet
    /\ UNCHANGED <<nsess, series, target, wmid, forced, codec>>
    /\ nobj < MaxObjs
    /\ nobj' = nobj + 1
    /\ IF n \in DOMAIN experiments
       THEN res' = "ValueError" /\ UNCHANGED experiments
       ELSE /\ res' = "ok"
            /\ experiments' = Put(experiments, n, NewExperiment(nobj + 1, n, m))

\* TraceDB.remove_experiment(n)
RemoveExperiment(n) ==
    /\ op' = "remove_experiment"
    /\ UNCHANGED <<nsess, series, target, wmid, forced, codec, nobj>>
    /\ IF n \in DOMAIN experiments
       THEN /\ res' = "ok"
            /\ experiments' = Drop(experiments, n)
            /\ ret' = [NoRet EXCEPT !.val = <<experiments[n].id>>]
       ELSE res' = "KeyError" /\ ret' = NoRet /\ UNCHANGED experiments

\* experiments[e].get_or_create_series(n, metadata=m)
GetOrCreateSeries(e, n, m) ==
    /\ e \in DOMAIN experiments
    /\ op' = "get_or_create_series" /\ res' = "ok"
    /\ UNCHANGED <<nsess, series, target, wmid, forced, codec>>
    /\ LET x == experiments[e]
           i == Found(x, n)
       IN IF i # 0
          THEN /\ UNCHANGED built
               /\ ret' = [NoRet EXCEPT !.val = <<x.series[i].id>>, !.warned = 1]
          ELSE /\ nobj < MaxObjs
               /\ nobj' = nobj + 1
               /\ experiments' = [experiments EXCEPT ![e].series =
                                      Append(@, NewSeries(nobj + 1, n, m, <<>>))]
               /\ ret' = [NoRet EXCEPT !.val = <<nobj + 1>>]

\* experiments[e].add_series(Series(name=n, traces=ts, metadata=m))
AddSeries(e, n, m, ts) ==
    /\ e \in DOMAIN experiments
    /\ op' = "add_series" /\ ret' = NoRet
    /\ UNCHANGED <<nsess, series, target, wmid, forced, codec>>
    /\ nobj < MaxObjs
    /\ nobj' = nobj + 1
    /\ IF Present(experiments[e], n) # 0
       THEN res' = "ValueError" /\ UNCHANGED experiments
       ELSE /\ res' = "ok"
            /\ experiments' = [experiments EXCEPT ![e].series =
                                   Append(@, NewSeries(nobj + 1, n, m, ts))]

\* experiments[e].remove_series(n)
RemoveSeries(e, n) ==
    /\ e \in DOMAIN experiments
    /\ op' = "remove_series"
    /\ UNCHANGED <<nsess, series, target, wmid, forced, codec, nobj>>
    /\ LET x == experiments[e]
           i == Lookup(x, n)
       IN IF i # 0
          THEN /\ res' = "ok"
               /\ experiments' = [experiments EXCEPT ![e].series = Pop(@, i - 1)]
               /\ ret' = [NoRet EXCEPT !.val = <<x.series[i].id>>]
          ELSE res' = "KeyError" /\ ret' = NoRet /\ UNCHANGED experiments

\* C40 mutant: the series skipped for a name collision are dropped from the
\* database saved as well
SelfAfter_Skipped(d, m) ==
    IF ~MergesInto(m) THEN d
    ELSE LET existing == LoadedFully(disk, emeta) IN
         [e \in DOMAIN d |->
            IF e \notin DOMAIN existing THEN d[e]
            ELSE [d[e] EXCEPT !.series =
                     SelectSeq(@, LAMBDA sr : ~Collides(SeriesNames(existing[e]), sr))]]

\* save_hdf5: self.experiments after the call; the merge appends to the
\* lists of existing_db and _write_hdf5 only reads
SelfAfter(d, m) == d

\* save_hdf5(F, mode=m, overwrite_ok=overwrite_ok) called on the database
\* built in memory
SaveBuilt(m, overwrite_ok) ==
    /\ Save(experiments, m, overwrite_ok)
    /\ experiments' = SelfAfter(experiments, m)
    /\ UNCHANGED nobj

\* A caller hands the trace sequence codec.sent to the streaming writer
\* (open_for_writing in create mode, add_trace for each trace, close_writing):
\* trace i is stored at index i - 1
PersistStreamed ==
    /\ codec.pc = "new"
    /\ codec' = [codec EXCEPT !.pc = "stored", !.via = "stream",
                    !.wire = [i \in DOMAIN codec.sent |-> StreamedRow(codec.sent[i])]]
    /\ op' = "stream" /\ res' = "ok"
    /\ UNCHANGED <<nsess, series, target, wmid, forced, ret, built>>

\* A caller saves a database holding a series with the buffer codec.sent
PersistSaved ==
    /\ codec.pc = "new"
    /\ codec' = [codec EXCEPT !.pc = "stored", !.via = "save",
                    !.wire = [i \in DOMAIN codec.sent |-> SavedRow(codec.sent[i])]]
    /\ op' = "save" /\ res' = "ok"
    /\ UNCHANGED <<nsess, series, target, wmid, forced, ret, built>>

\* The series is opened for reading and iterated: list(series)
ReadBack ==
    /\ codec.pc = "stored"
    /\ codec' = [codec EXCEPT !.pc = "read",
                    !.got = [i \in DOMAIN codec.wire |-> ReadTrace(codec.wire[i])]]
    /\ op' = "read" /\ res' = "ok"
    /\ UNCHANGED <<nsess, series, target, wmid, forced, ret, built>>

\* ------------------------------------------------------- specification
\* One call on the Series, with traces drawn from T, measurement_id
\* arguments from M and prompt answers from A.
Calls(T, M, A) ==
    \/ \E n \in Names, ts \in SeqUpTo(T, MaxInit) : Construct(n, ts)
    \/ \E e \in Exps, wm \in {"w", "a"}, marg \in M,
          confirm \in BOOLEAN, ans \in A :
          OpenForWriting(e, wm, marg, confirm, ans)
    \/ \E t \in T : AddTrace(t)
    \/ CloseWriting
    \/ \E given \in BOOLEAN, e \in ReadExps : OpenForReading(given, e)
    \/ CloseReading
    \/ \E i \in -1..MaxBuf : RemoveTrace(i)

\* traces of both shapes, session uuids as measurement ids
Next == NewSessionUuid \/ Calls(ShapedTraces, {NoId}, {"n"})
Spec == Init /\ [][Next]_vars

\* traces of one shape with different contents, written by one process
NextOrder == Calls(ValuedTraces, {NoId}, {"n"})
SpecOrder == Init /\ [][NextOrder]_vars

\* writing sessions that may end without close_writing
NextCut == Calls(ValuedTraces, {NoId}, {"n"}) \/ Interrupt
SpecCut == Init /\ [][NextCut]_vars

\* writing sessions asked to flush every few traces
Intervals == {3}
NextFlush ==
    \/ Calls(ValuedTraces, {NoId}, {"n"})
    \/ \E e \in Exps, n \in Intervals : OpenForWritingEvery(e, n)
SpecFlush == Init /\ [][NextFlush]_vars

\* one trace value; measurement ids that cannot be compared, and the prompt
NextSafety == NewSessionUuid \/ Calls({[shape |-> 2, val |-> "x"]}, MidArgs, Answers)
SpecSafety == Init /\ [][NextSafety]_vars

\* A series E1/S1 that an earlier process was streaming into when it
\* died: two traces persisted, the datasets still at their initial size
InterruptedGroup ==
    [tc |-> 2, mid |-> "uuid0", ds |-> TRUE, rs |-> TRUE, shape |-> 2,
     cap |-> InitialSize, acap |-> InitialSize,
     rows |-> <<[val |-> "y"], [val |-> "x"]>>, by |-> {"uuid0"},
     cut |-> TRUE, meta |-> NoMeta]

\* the accessor arguments tried
Indexes == -1..MaxRows
Bounds  == {None, Some(-1), Some(1), Some(MaxRows + 1)}
Steps   == {None, Some(2), Some(-1)}

\* the Series written, read through its accessors and closed, on a file that
\* may hold the interrupted series
InitRead ==
    /\ nsess = 1 /\ name = "S1" /\ traces = <<>> /\ mode = "MEMORY"
    /\ h5file = NoFile /\ h5group = NoGroup /\ source = NoSource
    /\ sample_shape = NoShape
    /\ \/ fexists = FALSE /\ disk = <<>>
       \/ fexists = TRUE /\ disk = [x \in {"E1"} |-> [y \in {"S1"} |-> InterruptedGroup]]
    /\ emeta = [e \in DOMAIN disk |-> NoMeta]
    /\ wmid = NoId /\ forced = {} /\ op = "init" /\ res = "ok" /\ ret = NoRet
    /\ codec = NoCodec
    /\ experiments = NoExperiments /\ nobj = 0
NextRead ==
    \/ Calls(ValuedTraces, {NoId}, {"n"})
    \/ LenCall
    \/ \E i \in Indexes : GetItem(i)
    \/ \E a \in Bounds, b \in Bounds, c \in Steps : GetSlice(a, b, c)
    \/ \E k \in 0..(MaxRows + 1) : Iterate(k)
SpecRead == InitRead /\ [][NextRead]_vars

\* a database saved to the file, a Series taken from the loaded database
\* and read through its accessors
LoadedExps  == {"E1", "E2"}
LoadedNames == {"S0", "S1", "S2"}
NextLoaded ==
    \/ \E d \in Dbs, m \in {"update", "overwrite"} : SaveHdf5(d, m, TRUE)
    \/ \E e \in LoadedExps, n \in LoadedNames : LoadSeries(e, n)
    \/ LoadHdf5
    \/ \E m \in {"update", "overwrite"} : SaveLoaded(m)
    \/ LenCall
    \/ \E i \in Indexes : GetItem(i)
    \/ \E k \in 0..(MaxRows + 1) : Iterate(k)
SpecLoaded == Init /\ [][NextLoaded]_vars

\* a Series written, read and closed while databases are saved in update
\* mode to the file it works on
BusyDbs == {d \in Dbs : DOMAIN d = {"E1"} /\ Len(d["E1"].series) = 1}
NextBusy ==
    \/ \E e \in Exps, confirm \in BOOLEAN : OpenForWriting(e, "a", NoId, confirm, "n")
    \/ AddTrace(TraceX)
    \/ CloseWriting
    \/ \E e \in ReadExps : OpenForReading(TRUE, e)
    \/ CloseReading
    \/ \E d \in BusyDbs : SaveHdf5(d, "update", FALSE)
SpecBusy == Init /\ [][NextBusy]_vars

\* databases saved to and loaded from a file that is absent or holds an
\* earlier streamed series; no Series of this process is open
NextDB ==
    \/ \E d \in Dbs, m \in SaveModes, ok \in BOOLEAN : SaveHdf5(d, m, ok)
    \/ LoadHdf5
SpecDB == Init /\ [][NextDB]_vars

\* a database built in memory from nothing by add, get_or_create and remove;
\* no file is involved
InitModel ==
    /\ nsess = 1 /\ name = "S1" /\ traces = <<>> /\ mode = "MEMORY"
    /\ h5file = NoFile /\ h5group = NoGroup /\ source = NoSource
    /\ sample_shape = NoShape
    /\ fexists = FALSE /\ disk = <<>> /\ emeta = <<>>
    /\ wmid = NoId /\ forced = {} /\ op = "init" /\ res = "ok" /\ ret = NoRet
    /\ codec = NoCodec
    /\ experiments = NoExperiments /\ nobj = 0
NextModel ==
    \/ \E n \in ExpNames, m \in MetaArgs : GetOrCreateExperiment(n, m)
    \/ \E n \in ExpNames, m \in MetaArgs : AddExperiment(n, m)
    \/ \E n \in ExpNames : RemoveExperiment(n)
    \/ \E e \in ExpNames, n \in SeriesIds, m \in MetaArgs : GetOrCreateSeries(e, n, m)
    \/ \E e \in ExpNames, n \in SeriesIds, m \in MetaArgs, ts \in BufferArgs :
          AddSeries(e, n, m, ts)
    \/ \E e \in ExpNames, n \in SeriesIds : RemoveSeries(e, n)
SpecModel == InitModel /\ [][NextModel]_vars

\* the database built in memory, saved to the file between its changes
NextSaved ==
    \/ \E n \in ExpNames, m \in MetaArgs : GetOrCreateExperiment(n, m)
    \/ \E e \in ExpNames, n \in SeriesIds, ts \in BufferArgs :
          AddSeries(e, n, NoMeta, ts)
    \/ \E e \in ExpNames, n \in SeriesIds : RemoveSeries(e, n)
    \/ \E m \in SaveModes, ok \in BOOLEAN : SaveBuilt(m, ok)
SpecSaved == InitModel /\ [][NextSaved]_vars

\* A series E1/S1 that an earlier process streamed n traces into and
\* closed: trace i holds the sample text of i; the datasets are trimmed to
\* n, or left at their initial size when n is 0
StreamedGroup(n) ==
    [tc |-> n, mid |-> "uuid0", ds |-> TRUE, rs |-> TRUE, shape |-> 2,
     cap  |-> IF n > 0 THEN n ELSE InitialSize,
     acap |-> IF n > 0 THEN n ELSE InitialSize,
     rows |-> [i \in 1..n |-> [val |-> ToString(i - 1)]],
     by |-> IF n > 0 THEN {"uuid0"} ELSE {}, cut |-> FALSE, meta |-> NoMeta]

\* the trace counts tried: those within MaxNear of a multiple of the chunk
Counts ==
    {n \in 0..MaxCount :
        n % ChunkRows <= MaxNear \/ n % ChunkRows >= ChunkRows - MaxNear}

\* the Series opened for reading on a file holding up to MaxCount traces,
\* turned into a matrix and closed
InitMatrix ==
    /\ nsess = 1 /\ name = "S1" /\ traces = <<>> /\ mode = "MEMORY"
    /\ h5file = NoFile /\ h5group = NoGroup /\ source = NoSource
    /\ sample_shape = NoShape
    /\ fexists = TRUE
    /\ \E n \in Counts : disk = [x \in {"E1"} |-> [y \in {"S1"} |-> StreamedGroup(n)]]
    /\ emeta = [e \in DOMAIN disk |-> NoMeta]
    /\ wmid = NoId /\ forced = {} /\ op = "init" /\ res = "ok" /\ ret = NoRet
    /\ codec = NoCodec
    /\ experiments = NoExperiments /\ nobj = 0
NextMatrix ==
    \/ OpenForReading(TRUE, "E1")
    \/ ToMatrix
    \/ CloseReading
SpecMatrix == InitMatrix /\ [][NextMatrix]_vars

\* trace sequences sharing one sample shape, written and read back
InitCodec ==
    /\ nsess = 1 /\ name = "S1" /\ traces = <<>> /\ mode = "MEMORY"
    /\ h5file = NoFile /\ h5group = NoGroup /\ source = NoSource
    /\ sample_shape = NoShape
    /\ fexists = FALSE /\ disk = <<>> /\ emeta = <<>>
    /\ wmid = NoId /\ forced = {} /\ op = "init" /\ res = "ok" /\ ret = NoRet
    /\ \E s \in SeqUpTo(FullTrace, MaxBuf) : codec = [NoCodec EXCEPT !.pc = "new", !.sent = s]
    /\ experiments = NoExperiments /\ nobj = 0
NextCodec == PersistStreamed \/ PersistSaved \/ ReadBack
SpecCodec == InitCodec /\ [][NextCodec]_vars

\* ===================================================================
\* Claims
\* ===================================================================

\* the call just made was made in a mode that forbids it
WrongModeCall ==
    \/ op' \in {"open_for_writing", "open_for_reading"} /\ mode \in {"WRITING", "READING"}
    \/ op' = "add_trace" /\ mode = "READING"
    \/ op' = "remove_trace" /\ mode # "MEMORY"

\* C1: every Series operation invoked in a mode that forbids it
\* (open_for_writing / open_for_reading while WRITING or READING, add_trace
\* while READING, remove_trace while not MEMORY) raises the state error
\* (RuntimeError) and leaves the mode, the buffer, the sample shape, the
\* recorded source, the backend binding and the persisted target unchanged.
C1_WrongModeMutatesNothing ==
    [][WrongModeCall => res' = "RuntimeError" /\ UNCHANGED <<series, target>>]_vars

\* C1 witness: add_trace was just rejected on a Series that is READING
C1_Witness == op = "add_trace" /\ res = "RuntimeError" /\ mode = "READING"

\* the series group d holds at path p
GroupAt(d, p) == d[p[1]][p[2]]

\* C2: a series of the target holds traces written under two different
\* session identifiers only if a writing session was opened on it with
\* confirm_append=false or after the user answered the prompt with yes;
\* calls made with confirm_append=true alone never mix two identifiers.
C2_NoSilentInterleaving ==
    \A p \in Paths(disk) : Cardinality(GroupAt(disk, p).by) > 1 => p \in forced

\* the measurement id a call with argument marg runs under (None: the session uuid)
CallerId(marg) == IF marg = NoId THEN Uuid(nsess) ELSE marg

\* the target holds series S1 of experiment e with prior traces, recorded
\* under an identifier other than the one a call with marg runs under
RecordedDiffers(e, marg) ==
    /\ fexists /\ HasSeries(disk, e, name)
    /\ Count(disk[e][name]) > 0
    /\ disk[e][name].mid # NoId
    /\ disk[e][name].mid # CallerId(marg)

\* C3: open_for_writing in append mode onto an existing series that holds
\* prior traces and whose recorded session identifier differs from the
\* caller's: with confirm_append=true it fails with the safety error
\* (ValueError), the series stays in MEMORY and the target is unchanged; with
\* confirm_append=false it succeeds, enters WRITING and the recorded
\* identifier becomes the caller's.
C3_MismatchedAppend ==
    [][\A e \in Exps, marg \in {NoId}, ans \in Answers :
        /\ (mode = "MEMORY" /\ RecordedDiffers(e, marg)
               /\ OpenForWriting(e, "a", marg, TRUE, ans))
           => (res' = "ValueError" /\ mode' = "MEMORY" /\ UNCHANGED target)
        /\ (mode = "MEMORY" /\ RecordedDiffers(e, marg)
               /\ OpenForWriting(e, "a", marg, FALSE, ans))
           => (res' = "ok" /\ mode' = "WRITING"
               /\ disk'[e][name].mid = CallerId(marg))]_vars

\* C4: a Series holds a backend binding (a file handle, a group handle)
\* exactly when its mode is WRITING or READING; in MEMORY mode, also after a
\* failed open, it holds none.
C4_BindingIffAttached ==
    (h5file # NoFile \/ h5group # NoGroup) <=> mode \in {"WRITING", "READING"}

\* C5: add_trace with a trace whose sample shape differs from the
\* established sample shape fails with the validation error (ValueError) in
\* MEMORY and in WRITING mode, and leaves the buffer length and the persisted
\* trace count unchanged.
C5_WrongShapeRejected ==
    [][\A t \in ShapedTraces :
        (/\ mode \in {"MEMORY", "WRITING"}
         /\ sample_shape # NoShape /\ t.shape # sample_shape
         /\ AddTrace(t))
        => (/\ res' = "ValueError"
            /\ Len(traces') = Len(traces)
            /\ mode = "WRITING" => Count(GroupAt(disk', h5group)) = Count(Bound))]_vars

\* C6: in every reachable state every buffered trace has the sample shape
\* the Series records as sample_shape, and once sample_shape is established
\* no operation on the Series (add_trace, remove_trace, open_for_writing,
\* open_for_reading, close_writing, close_reading) changes it.
C6_ShapeFixed ==
    [][/\ \A i \in DOMAIN traces' : traces'[i].shape = sample_shape'
       /\ (op' # "construct" /\ sample_shape # NoShape) => sample_shape' = sample_shape]_vars

\* the only mode changes of the lifecycle, each with the call that makes it
ModeStep ==
    \/ mode = "MEMORY"  /\ mode' = "WRITING" /\ op' = "open_for_writing" /\ res' = "ok"
    \/ mode = "WRITING" /\ mode' = "MEMORY"  /\ op' = "close_writing"
    \/ mode = "MEMORY"  /\ mode' = "READING" /\ op' = "open_for_reading" /\ res' = "ok"
    \/ mode = "READING" /\ mode' = "MEMORY"  /\ op' = "close_reading"

\* the Series is in MEMORY after at least one open, every open having been
\* completed by its close
CyclesCompleted == mode = "MEMORY" /\ source # NoSource /\ h5file = NoFile

\* C7: the mode changes only MEMORY -> WRITING on a successful
\* open_for_writing, WRITING -> MEMORY on close_writing, MEMORY -> READING on
\* a successful open_for_reading and READING -> MEMORY on close_reading, never
\* directly between WRITING and READING; and after completed open/close
\* cycles open_for_reading on the recorded target and open_for_writing (on a
\* series not recorded under another session) succeed again from MEMORY.
C7_Lifecycle ==
    [][/\ mode' # mode => ModeStep
       /\ (CyclesCompleted /\ OpenForReading(FALSE, "E1"))
             => (res' = "ok" /\ mode' = "READING")
       /\ \A e \in Exps, wm \in {"w", "a"}, confirm \in BOOLEAN :
             (CyclesCompleted /\ ~RecordedDiffers(e, NoId)
                 /\ OpenForWriting(e, wm, NoId, confirm, "n"))
             => (res' = "ok" /\ mode' = "WRITING")]_vars

\* C8: a successful add_trace in WRITING mode appends the trace to the
\* buffer, writes it to the target at the index equal to the recorded trace
\* count before the call and raises the recorded trace count by exactly one;
\* add_trace in MEMORY mode never touches the target (nor the mode, the
\* binding or the recorded source).
C8_AddTraceStreams ==
    [][\A t \in ValuedTraces :
        /\ (mode = "WRITING" /\ AddTrace(t) /\ res' = "ok")
           => LET c == Count(Bound)
                  g == GroupAt(disk', h5group)
              IN /\ traces' = Append(traces, t)
                 /\ Count(g) = c + 1
                 /\ Len(g.rows) = c + 1
                 /\ g.rows[c + 1] = Row(t)
                 /\ \A i \in 1..c : g.rows[i] = Bound.rows[i]
        /\ (mode = "MEMORY" /\ AddTrace(t))
           => UNCHANGED <<target, mode, h5file, h5group, source>>]_vars

\* C8 witness: a second, different trace was just streamed behind the first
C8_Witness ==
    /\ op = "add_trace" /\ res = "ok" /\ mode = "WRITING"
    /\ Count(Bound) = 2
    /\ Bound.rows = <<[val |-> "x"], [val |-> "y"]>>
    /\ traces[Len(traces)].val = "y"

\* recorded trace count of the series a call open_for_writing(F, e, mode=wm)
\* writes onto: 0 for a series it creates
CountOnTarget(e, wm) ==
    IF wm = "a" /\ fexists /\ HasSeries(disk, e, name) THEN Count(disk[e][name]) ELSE 0

C10_CloseTrims ==
    [][(mode = "WRITING" /\ CloseWriting)
        => LET g == GroupAt(disk', h5group)
           IN /\ mode' = "MEMORY" /\ h5file' = NoFile /\ h5group' = NoGroup
              /\ g.ds => (g.cap = Count(g) /\ g.acap = Count(g))]_vars

\* C11: for every sequence of traces sharing one sample shape, persisting
\* it (by the streaming writer or by a TraceDB save) and reading the series
\* back yields the same number of traces in the same order, each with equal
\* samples, stimulus, response, key and timestamp.
C11_RoundTrip == codec.pc = "read" => codec.got = codec.sent

\* the traces a series group holds: its slots up to the recorded count
Stored(g) == SubSeq(g.rows, 1, Count(g))

\* the slots a buffer of traces is written to
RowsOf(ts) == [i \in DOMAIN ts |-> Row(ts[i])]

\* C12: an update-mode save of a database holding experiment E with a
\* series S2, onto a target whose E has no series of that name, leaves E
\* holding S2 with its buffered traces, and every series S1 that E held
\* before with the same traces in the same order.
C12_UpdateAddsSeries ==
    [][\A d \in Dbs, ok \in BOOLEAN :
         (fexists /\ SaveHdf5(d, "update", ok)) =>
            \A e \in DOMAIN d \cap DOMAIN disk : \A i \in DOMAIN d[e].series :
               LET s2 == d[e].series[i] IN
               s2.name \notin DOMAIN disk[e] =>
                  /\ HasSeries(disk', e, s2.name)
                  /\ Stored(disk'[e][s2.name]) = RowsOf(s2.traces)
                  /\ \A s1 \in DOMAIN disk[e] :
                        /\ HasSeries(disk', e, s1)
                        /\ Stored(disk'[e][s1]) = Stored(disk[e][s1])]_vars

\* C12 witness: a save has put S2 with its two traces next to the series S0
\* that an earlier process had streamed into E1
C12_Witness ==
    /\ op = "save_hdf5" /\ res = "ok"
    /\ HasSeries(disk, "E1", "S0") /\ HasSeries(disk, "E1", "S2")
    /\ Stored(disk["E1"]["S0"]) = <<[val |-> "x"]>>
    /\ Stored(disk["E1"]["S2"]) = <<[val |-> "y"], [val |-> "x"]>>

\* the series of database d whose experiment and name the file content f
\* already holds, as <<experiment, position in the series list>>
Colliding(f, d) ==
    {c \in UNION {{<<e, i>> : i \in DOMAIN d[e].series} : e \in DOMAIN d \cap DOMAIN f} :
        d[c[1]].series[c[2]].name \in DOMAIN f[c[1]]}

\* C13: an update-mode save of a database holding E/S1 onto a target that
\* already holds E/S1 leaves the target's S1 with its original traces,
\* raises exactly one warning per colliding series, and the target's E
\* holds exactly one series named S1.
C13_UpdateSkipsDuplicates ==
    [][\A d \in Dbs, ok \in BOOLEAN :
         (fexists /\ SaveHdf5(d, "update", ok)) =>
            /\ ret'.warned = Cardinality(Colliding(disk, d))
            /\ \A c \in Colliding(disk, d) :
                  LET e  == c[1]
                      s1 == d[e].series[c[2]].name
                      after == LoadedDb(disk', emeta')
                  IN /\ HasSeries(disk', e, s1)
                     /\ Stored(disk'[e][s1]) = Stored(disk[e][s1])
                     /\ Cardinality({i \in DOMAIN after[e].series :
                                        after[e].series[i].name = s1}) = 1]_vars

\* C13 witness: a save onto a file holding E1/S1 has just raised one warning
C13_Witness ==
    /\ op = "save_hdf5" /\ res = "ok" /\ ret.warned = 1
    /\ HasSeries(disk, "E1", "S1")

\* the <<experiment, series name>> pairs of database d
DbPaths(d) == UNION {{<<e, d[e].series[i].name>> : i \in DOMAIN d[e].series} : e \in DOMAIN d}

\* what a series group persists: its traces, its metadata, its session id
Persisted(g) == [traces |-> Stored(g), meta |-> g.meta, mid |-> g.mid]

\* C14: every update-mode save leaves the target holding exactly the
\* experiment names and, per experiment, the series names it held before
\* together with those of the database saved; a series whose name is new
\* holds the traces of that database, and every experiment and series the
\* target held before is still there, unaltered (attributes and traces).
C14_UpdateOnlyAdds ==
    [][\A d \in Dbs, ok \in BOOLEAN :
         SaveHdf5(d, "update", ok) =>
            /\ DOMAIN disk' = DOMAIN disk \cup DOMAIN d
            /\ Paths(disk') = Paths(disk) \cup DbPaths(d)
            /\ \A e \in DOMAIN d : \A i \in DOMAIN d[e].series :
                  <<e, d[e].series[i].name>> \notin Paths(disk) =>
                     Stored(disk'[e][d[e].series[i].name]) = RowsOf(d[e].series[i].traces)
            /\ \A e \in DOMAIN disk : emeta'[e] = emeta[e]
            /\ \A p \in Paths(disk) :
                  Persisted(GroupAt(disk', p)) = Persisted(GroupAt(disk, p))]_vars

\* C15: a save whose mode is neither update nor overwrite, or whose mode
\* is overwrite on an existing file without overwrite_ok, fails with the
\* validation error (ValueError) and leaves the target as it was: the same
\* experiments, series and traces, the file not even created.
C15_RejectedSaveTouchesNothing ==
    [][\A d \in Dbs, m \in SaveModes, ok \in BOOLEAN :
         (/\ SaveHdf5(d, m, ok)
          /\ \/ m \notin {"update", "overwrite"}
             \/ m = "overwrite" /\ fexists /\ ~ok)
         => res' = "ValueError" /\ UNCHANGED target]_vars

\* C15 witness: a save onto a file that holds a series was just rejected
C15_Witness ==
    /\ op = "save_hdf5" /\ res = "ValueError"
    /\ fexists /\ Paths(disk) # {}

\* C16: a save in update mode onto a target that does not exist, or in
\* overwrite mode with overwrite_ok (or onto a target that does not exist),
\* leaves the target holding exactly the experiments and series of the
\* database, each series with its buffered traces, and nothing of what the
\* target held before; after saving an empty database the target loads as a
\* database with zero experiments.
C16_FreshWrite ==
    [][\A d \in Dbs, m \in {"update", "overwrite"}, ok \in BOOLEAN :
         (/\ SaveHdf5(d, m, ok)
          /\ \/ ~fexists
             \/ m = "overwrite" /\ ok)
         => /\ res' = "ok" /\ fexists'
            /\ DOMAIN disk' = DOMAIN d
            /\ Paths(disk') = DbPaths(d)
            /\ \A e \in DOMAIN d : \A i \in DOMAIN d[e].series :
                  Stored(disk'[e][d[e].series[i].name]) = RowsOf(d[e].series[i].traces)
            /\ d = <<>> => LoadedDb(disk', emeta') = <<>>]_vars

\* C16 witness: after a save the target holds experiment E2 with the
\* one-trace series S1 and nothing else
C16_Witness ==
    /\ op = "save_hdf5" /\ res = "ok"
    /\ DOMAIN disk = {"E2"} /\ DOMAIN disk["E2"] = {"S1"}
    /\ Stored(disk["E2"]["S1"]) = <<[val |-> "x"]>>

\* the keys and values of a set of metadata entries or attributes
KeyVals(m) == {<<a[1], a[3]>> : a \in m}

UpTo(n) == [i \in 1..n |-> i - 1]

\* C18: while READING, consuming the first k traces of an iteration reads
\* only the slots 0..k-1 (all of them when k exceeds the count), indexing
\* reads at most the one requested slot, slicing reads only the slots the
\* slice selects, and len reads no slot at all.
C18_ReadsOnlyRequested ==
    [][mode = "READING" =>
         LET n == Count(Bound) IN
         /\ LenCall => ret'.touched = <<>>
         /\ \A i \in Indexes : GetItem(i) =>
               /\ Len(ret'.touched) <= 1
               /\ i >= 0 => ret'.touched \in {<<>>, <<i>>}
               /\ (0 <= i /\ i < n) => ret'.touched = <<i>>
         /\ \A a \in Bounds, b \in Bounds, c \in Steps : GetSlice(a, b, c) =>
               LET ix == SliceIndices(a, b, c, n) IN
               ret'.touched = Range(ix.start, ix.stop, ix.step)
         /\ \A k \in 0..(MaxRows + 1) : Iterate(k) =>
               ret'.touched = UpTo(Min(k, n))]_vars

\* C18 witness: of the two traces of the series, an iteration has consumed
\* and read only the first
C18_Witness ==
    /\ mode = "READING" /\ op = "iter" /\ res = "ok"
    /\ Count(Bound) = 2
    /\ ret.touched = <<0>>

\* C19: while READING, len returns the recorded trace count, series[i]
\* returns the persisted trace at index i, a slice returns the persisted
\* traces it selects in index order, and an iteration yields the persisted
\* traces at 0..count-1 in order, also when the datasets are longer than
\* the recorded count.
C19_ReadsPersisted ==
    [][mode = "READING" =>
         LET g == Bound
             n == Count(Bound)
         IN
         /\ LenCall => ret'.val = n
         /\ \A i \in Indexes : (GetItem(i) /\ 0 <= i /\ i < n) =>
               res' = "ok" /\ ret'.val = <<TraceAt(g, i)>>
         /\ \A a \in Bounds, b \in Bounds, c \in Steps : GetSlice(a, b, c) =>
               LET ix == SliceIndices(a, b, c, n)
                   rg == Range(ix.start, ix.stop, ix.step)
               IN /\ res' = "ok"
                  /\ ret'.val = [p \in DOMAIN rg |-> TraceAt(g, rg[p])]
         /\ \A k \in 0..(MaxRows + 1) : Iterate(k) =>
               /\ res' = "ok"
               /\ ret'.val = [p \in 1..Min(k, n) |-> TraceAt(g, p - 1)]]_vars

\* C19 witness: an iteration over a series whose datasets are longer than
\* its count of two has yielded exactly its two traces, in order
C19_Witness ==
    /\ mode = "READING" /\ op = "iter" /\ res = "ok"
    /\ Count(Bound) = 2 /\ Bound.cap > 2
    /\ ret.val = <<[shape |-> 2, val |-> "y"], [shape |-> 2, val |-> "x"]>>

\* C20: a successful open_for_reading discards the buffer, so the buffer
\* is empty in every READING state, and close_reading does not restore it:
\* when it returns from READING the Series is in MEMORY with an empty buffer.
C20_ReadingHasNoBuffer ==
    [][/\ mode' = "READING" => traces' = <<>>
       /\ (mode = "READING" /\ CloseReading) => (mode' = "MEMORY" /\ traces' = <<>>)]_vars

\* C20 witness: close_reading has returned a Series to MEMORY with an empty
\* buffer, although the series it read, which it had streamed itself from
\* its buffer, holds a trace
C20_Witness ==
    /\ op = "close_reading" /\ mode = "MEMORY" /\ traces = <<>>
    /\ source # NoSource
    /\ HasSeries(disk, source[2], name)
    /\ Count(disk[source[2]][name]) > 0

\* C21: open_for_writing in append mode onto an existing series that holds
\* c > 0 traces recorded under the caller's own session identifier succeeds
\* whatever confirm_append is and without a prompt (the answer "n" would
\* cancel it); the existing traces stay as they are and the next free index
\* is c, so that the traces then added go to c, c+1, ...
C21_SameSessionAppends ==
    [][\A e \in Exps, confirm \in BOOLEAN :
         (/\ mode = "MEMORY" /\ fexists /\ HasSeries(disk, e, name)
          /\ Count(disk[e][name]) > 0
          /\ disk[e][name].mid = Uuid(nsess)
          /\ OpenForWriting(e, "a", NoId, confirm, "n"))
         => /\ res' = "ok" /\ mode' = "WRITING"
            /\ Stored(disk'[e][name]) = Stored(disk[e][name])
            /\ NextIndex(disk'[e][name]) = Count(disk[e][name])]_vars

\* C22: open_for_writing in append mode with confirm_append = true onto an
\* existing series that holds traces but records no session identifier does
\* not proceed unconfirmed: it opens only when the answer to the prompt is
\* affirmative; otherwise it fails (with the cancellation error when the
\* file could be opened) without entering WRITING and without changing the
\* target.
C22_UncomparableNeedsConfirmation ==
    [][\A e \in Exps, marg \in MidArgs, ans \in Answers :
         (/\ mode = "MEMORY" /\ fexists /\ HasSeries(disk, e, name)
          /\ Count(disk[e][name]) > 0
          /\ disk[e][name].mid = NoId
          /\ OpenForWriting(e, "a", marg, TRUE, ans))
         => /\ res' = "ok" => ans = "y"
            /\ ans # "y" => /\ res' # "ok" /\ mode' = "MEMORY"
                            /\ UNCHANGED target
                            /\ h5file = NoFile => res' = "RuntimeError"]_vars

\* C22 witness: an append onto a series that holds a trace and records no
\* session identifier has just been cancelled at the prompt
C22_Witness ==
    /\ op = "open_for_writing" /\ res = "RuntimeError" /\ mode = "MEMORY"
    /\ h5group # NoGroup
    /\ Count(Bound) > 0 /\ Bound.mid = NoId

\* the identities of all the Experiment and Series objects of a hierarchy
Ids(xs) ==
    {xs[k].id : k \in DOMAIN xs}
    \cup UNION {{xs[k].series[i].id : i \in DOMAIN xs[k].series} : k \in DOMAIN xs}

\* C23: get_or_create_experiment and get_or_create_series never raise. When
\* the name is present they return the existing entity, leave the whole
\* hierarchy (metadata, contents, sizes) unchanged and raise one warning;
\* otherwise they register and return a new, empty entity of that name
\* carrying the given metadata, and raise no warning.
C23_GetOrCreate ==
    [][/\ \A n \in ExpNames, m \in MetaArgs : GetOrCreateExperiment(n, m) =>
            /\ res' = "ok"
            /\ IF n \in DOMAIN experiments
               THEN /\ experiments' = experiments
                    /\ ret'.val = <<experiments[n].id>> /\ ret'.warned = 1
               ELSE /\ DOMAIN experiments' = DOMAIN experiments \cup {n}
                    /\ \A k \in DOMAIN experiments : experiments'[k] = experiments[k]
                    /\ experiments'[n].name = n /\ experiments'[n].meta = m
                    /\ experiments'[n].series = <<>>
                    /\ experiments'[n].id \notin Ids(experiments)
                    /\ ret'.val = <<experiments'[n].id>> /\ ret'.warned = 0
       /\ \A e \in ExpNames, n \in SeriesIds, m \in MetaArgs : GetOrCreateSeries(e, n, m) =>
            LET old == experiments[e].series
                new == experiments'[e].series
                at  == {i \in DOMAIN old : old[i].name = n}
            IN /\ res' = "ok"
               /\ IF at # {}
                  THEN /\ experiments' = experiments
                       /\ \E i \in at : ret'.val = <<old[i].id>>
                       /\ ret'.warned = 1
                  ELSE /\ experiments' = [experiments EXCEPT ![e].series = new]
                       /\ Len(new) = Len(old) + 1
                       /\ SubSeq(new, 1, Len(old)) = old
                       /\ new[Len(new)].name = n /\ new[Len(new)].meta = m
                       /\ new[Len(new)].traces = <<>>
                       /\ new[Len(new)].id \notin Ids(experiments)
                       /\ ret'.val = <<new[Len(new)].id>> /\ ret'.warned = 0]_vars

\* C23 witness: get_or_create_series has just returned, with a warning, a
\* series that was registered with metadata and a trace
C23_Witness ==
    /\ op = "get_or_create_series" /\ res = "ok" /\ ret.warned = 1
    /\ \E e \in DOMAIN experiments : \E i \in DOMAIN experiments[e].series :
          /\ ret.val = <<experiments[e].series[i].id>>
          /\ experiments[e].series[i].traces # <<>>
          /\ experiments[e].series[i].meta = StrMeta

\* every experiment is registered under its own name and the series names
\* within every experiment are pairwise distinct
NamesDistinct(xs) ==
    \A k \in DOMAIN xs :
       /\ xs[k].name = k
       /\ \A i \in DOMAIN xs[k].series, j \in DOMAIN xs[k].series :
             i # j => xs[k].series[i].name # xs[k].series[j].name

\* C24: add_experiment and add_series reject an entity whose name is
\* already present with the validation error (ValueError) and leave the
\* hierarchy unchanged; so after any sequence of add, get_or_create and
\* remove calls from an empty database every experiment is registered under
\* its own name and series names are pairwise distinct within it.
C24_NamesStayDistinct ==
    [][/\ \A n \in ExpNames, m \in MetaArgs :
            (n \in DOMAIN experiments /\ AddExperiment(n, m)) =>
               res' = "ValueError" /\ experiments' = experiments
       /\ \A e \in ExpNames, n \in SeriesIds, m \in MetaArgs, ts \in BufferArgs :
            (/\ e \in DOMAIN experiments
             /\ \E i \in DOMAIN experiments[e].series : experiments[e].series[i].name = n
             /\ AddSeries(e, n, m, ts)) =>
               res' = "ValueError" /\ experiments' = experiments
       /\ NamesDistinct(experiments')]_vars

\* C24 witness: add_series has just rejected a second series of a name the
\* experiment already holds
C24_Witness ==
    /\ op = "add_series" /\ res = "ValueError"
    /\ \E e \in DOMAIN experiments : Len(experiments[e].series) = 1

\* C25: open_for_writing in append mode on an existing target, add_trace
\* while WRITING and close_writing change nothing but the named series (and
\* create its experiment when absent): every other series group, with its
\* trace count, traces and attributes, and the attributes of every
\* experiment the target held are the same after the call as before.
C25_AppendTouchesOneSeries ==
    [][\A p \in ExpNames \X Names :
         (\/ /\ fexists /\ p[2] = name
             /\ \E confirm \in BOOLEAN : OpenForWriting(p[1], "a", NoId, confirm, "n")
          \/ /\ mode = "WRITING" /\ p = h5group
             /\ \/ \E t \in ShapedTraces : AddTrace(t)
                \/ CloseWriting)
         => /\ \A q \in Paths(disk) \ {p} :
                  q \in Paths(disk') /\ GroupAt(disk', q) = GroupAt(disk, q)
            /\ \A x \in DOMAIN emeta : x \in DOMAIN emeta' /\ emeta'[x] = emeta[x]]_vars

\* C25 witness: a writing session on E1/S1 has been closed and the series
\* S0 that an earlier process streamed into E1 is still what it was
C25_Witness ==
    /\ op = "close_writing" /\ mode = "MEMORY"
    /\ HasSeries(disk, "E1", "S1") /\ Count(disk["E1"]["S1"]) > 0
    /\ HasSeries(disk, "E1", "S0") /\ disk["E1"]["S0"] = EarlierGroup

\* C26: a successful open_for_writing in create mode on a target file that
\* exists discards what the file held: afterwards the target holds only the
\* experiment and the series of the new session, and that series holds only
\* the traces of the Series' buffer.
C26_CreateDiscards ==
    [][\A e \in Exps, confirm \in BOOLEAN :
         (fexists /\ OpenForWriting(e, "w", NoId, confirm, "n") /\ res' = "ok")
         => /\ DOMAIN disk' = {e} /\ DOMAIN emeta' = {e}
            /\ Paths(disk') = {<<e, name>>}
            /\ Stored(disk'[e][name]) = RowsOf(traces)
            /\ emeta'[e] = NoMeta]_vars

\* C26 witness: a session has been opened, and the target holds nothing but
\* its series E1/S1 with the one trace of the buffer
C26_Witness ==
    /\ op = "open_for_writing" /\ res = "ok" /\ mode = "WRITING"
    /\ Paths(disk) = {<<"E1", "S1">>}
    /\ Len(traces) = 1 /\ Stored(disk["E1"]["S1"]) = RowsOf(traces)

\* C27: when close_writing ends a session that open_for_writing has just
\* opened with an empty buffer on a series that holds no trace (no add_trace
\* in between), the series group carries a trace_count attribute equal to 0.
C27_EmptySessionCountsZero ==
    [][(/\ op = "open_for_writing" /\ res = "ok" /\ mode = "WRITING"
        /\ traces = <<>> /\ Count(Bound) = 0
        /\ CloseWriting)
       => GroupAt(disk', h5group).tc = 0]_vars

\* the series group a loaded Series came from
Origin == disk[source[2]][name]

\* C28: for a Series obtained from load, directly after load and without
\* any open_for_reading call, len returns the number of traces persisted
\* for it in the target, indexing returns the persisted trace at the index
\* and iteration returns the persisted traces in order.
C28_LoadedSeriesReadsTarget ==
    [][(op = "load_series" /\ res = "ok") =>
         /\ LenCall => ret'.val = Count(Origin)
         /\ \A i \in 0..(Count(Origin) - 1) :
               GetItem(i) => res' = "ok" /\ ret'.val = <<TraceAt(Origin, i)>>
         /\ Iterate(MaxRows + 1) =>
               ret'.val = [i \in 1..Count(Origin) |-> TraceAt(Origin, i - 1)]]_vars

\* C29: close_writing called while the mode is not WRITING, and
\* close_reading called while the mode is not READING, change nothing:
\* mode, buffer, backend binding and target stay as they are. So
\* close_writing does not release a read binding, close_reading does not
\* release a write binding, and a close repeated right after itself
\* changes nothing more.
C29_ClosesAreNoOps ==
    [][/\ (mode # "WRITING" /\ CloseWriting) => UNCHANGED <<series, target, wmid>>
       /\ (mode # "READING" /\ CloseReading) => UNCHANGED <<series, target, wmid>>
       /\ (op = "close_writing" /\ CloseWriting) => UNCHANGED <<series, target, wmid>>
       /\ (op = "close_reading" /\ CloseReading) => UNCHANGED <<series, target, wmid>>]_vars

\* close_writing was called on a Series that is reading, and it still reads
C29_Witness ==
    /\ op = "close_writing" /\ mode = "READING"
    /\ h5file = "r" /\ h5group # NoGroup

C31_RewriteAfterMerge ==
    [][\A d \in Dbs, ok \in BOOLEAN :
         (fexists /\ SaveHdf5(d, "update", ok)) =>
            IF res' = "ok"
            THEN \A p \in Paths(disk) :
                    /\ HasSeries(disk', p[1], p[2])
                    /\ Stored(GroupAt(disk', p)) = Stored(GroupAt(disk, p))
            ELSE UNCHANGED target]_vars

\* an update save rewrote a file that held traces streamed by a Series and
\* added a series to it
C31_Witness ==
    /\ op = "save_hdf5" /\ res = "ok"
    /\ \E e \in DOMAIN disk :
         /\ Cardinality(DOMAIN disk[e]) > 1
         /\ "S0" \in DOMAIN disk[e]
         /\ disk[e]["S0"].tc > 0 /\ disk[e]["S0"].mid = NoId

\* C32: save serializes for each series exactly the traces of its
\* in-memory buffer. A series of the saved database whose traces exist only
\* on the backend (a Series returned by load and never materialized) is
\* written with a recorded trace count of 0 and no trace data, even when
\* its source holds traces.
C32_SaveWritesBuffers ==
    [][/\ \A d \in Dbs :
            (SaveHdf5(d, "overwrite", TRUE) /\ res' = "ok") =>
               \A e \in DOMAIN d : \A i \in DOMAIN d[e].series :
                  LET sr == d[e].series[i] IN
                  /\ disk'[e][sr.name].tc = Len(sr.traces)
                  /\ Stored(disk'[e][sr.name]) = RowsOf(sr.traces)
       /\ (SaveLoaded("overwrite") /\ res' = "ok") =>
               /\ DOMAIN disk' = DOMAIN disk
               /\ \A p \in Paths(disk) :
                     /\ HasSeries(disk', p[1], p[2])
                     /\ GroupAt(disk', p).tc = 0
                     /\ ~GroupAt(disk', p).ds
                     /\ GroupAt(disk', p).rows = <<>>]_vars

\* the series S0, which held a trace, was saved from a loaded database
\* and is in the file without traces
C32_Witness ==
    /\ op = "save_hdf5" /\ res = "ok"
    /\ \E e \in DOMAIN disk :
         /\ "S0" \in DOMAIN disk[e]
         /\ disk[e]["S0"].tc = 0 /\ ~disk[e]["S0"].ds

\* C33: an update-mode save onto an existing target preserves, for every
\* experiment and series already in the target, all of its scalar metadata
\* entries (string, integer and floating-point alike) and the series'
\* recorded session identifier: each attribute is present afterwards with
\* the value it had before.
C33_UpdateKeepsAttributes ==
    [][\A d \in Dbs, ok \in BOOLEAN :
         (fexists /\ SaveHdf5(d, "update", ok) /\ res' = "ok") =>
            /\ \A e \in DOMAIN disk : emeta[e] \subseteq emeta'[e]
            /\ \A p \in Paths(disk) :
                  /\ GroupAt(disk, p).meta \subseteq GroupAt(disk', p).meta
                  /\ GroupAt(disk', p).mid = GroupAt(disk, p).mid]_vars

\* C34: the append-safety check runs only when the existing series'
\* recorded trace count is greater than 0. Appending with
\* confirm_append = true to an existing series of the same name that holds
\* no traces succeeds without any check (no prompt: the answer "n" would
\* cancel it) even when its recorded session identifier differs from the
\* caller's, and replaces the recorded identifier by the caller's.
C34_EmptySeriesUnchecked ==
    [][\A e \in Exps, marg \in MidArgs :
         (/\ mode = "MEMORY" /\ fexists /\ HasSeries(disk, e, name)
          /\ Count(disk[e][name]) = 0
          /\ CallerId(marg) # EmptyId
          /\ disk[e][name].mid \notin {NoId, EmptyId, CallerId(marg)}
          /\ OpenForWriting(e, "a", marg, TRUE, "n"))
         => /\ res' = "ok" /\ mode' = "WRITING"
            /\ disk'[e][name].mid = CallerId(marg)]_vars

\* C35: while a series is in WRITING mode with its datasets allocated, the
\* samples dataset and the four annotation datasets have the same length,
\* never smaller than the recorded trace count; datasets are created with
\* capacity 1000, and add_trace changes the capacity only when the index
\* it writes is at or past the current capacity, to that index plus 1000,
\* never on a write that fits.
C35_Capacity ==
    [][(mode' = "WRITING" /\ GroupAt(disk', h5group').ds) =>
         LET g == GroupAt(disk', h5group') IN
         /\ g.cap = g.acap /\ g.cap >= Count(g)
         /\ ~(HasSeries(disk, h5group'[1], h5group'[2])
               /\ GroupAt(disk, h5group').ds) => g.cap = 1000
         /\ \A t \in ValuedTraces :
               (mode = "WRITING" /\ Bound.ds /\ AddTrace(t) /\ g.cap # Bound.cap) =>
                  Count(Bound) >= Bound.cap /\ g.cap = Count(Bound) + 1000]_vars

\* add_trace wrote at an index past the trimmed datasets, which grew
C35_Witness ==
    /\ op = "add_trace" /\ res = "ok" /\ mode = "WRITING"
    /\ Count(Bound) = 2 /\ Bound.cap = 1001

\* C36: a writing session interrupted before close_writing leaves the
\* target with the datasets at their last grown capacity (not trimmed) and
\* a recorded trace count below which every index holds a written trace;
\* a later append-mode writing session on that series that ends with a
\* successful close_writing trims the datasets to the recorded count.
C36_InterruptedThenTrimmed ==
    [][/\ Interrupt =>
            /\ GroupAt(disk', h5group) = [Bound EXCEPT !.cut = TRUE]
            /\ Bound.ds =>
                  /\ Bound.cap >= Count(Bound)
                  /\ \A i \in 1..Count(Bound) :
                        i <= Len(Bound.rows) /\ Bound.rows[i] # Blank
       /\ (/\ mode = "WRITING" /\ Bound.cut /\ Bound.ds
           /\ CloseWriting /\ res' = "ok")
          => /\ GroupAt(disk', h5group).cap = Count(Bound)
             /\ GroupAt(disk', h5group).acap = Count(Bound)]_vars

\* C37: every sample and annotation dataset persisted for a series, by the
\* streaming writer or by TraceDB save, is resizable, so that a later
\* writing session opened in append mode on that series can grow it:
\* add_trace succeeds and places the new trace at the index equal to the
\* previously recorded trace count.
C37_PersistedDatasetsGrow ==
    [][/\ \A p \in Paths(disk') : GroupAt(disk', p).ds => GroupAt(disk', p).rs
       /\ (/\ mode = "WRITING" /\ Bound.ds /\ CanStore(Bound, TraceX)
           /\ AddTrace(TraceX))
          => /\ res' = "ok"
             /\ GroupAt(disk', h5group).tc = Count(Bound) + 1
             /\ GroupAt(disk', h5group).rows[Count(Bound) + 1] = Row(TraceX)]_vars

\* C38: to_matrix in READING mode returns a matrix with exactly as many
\* rows as the recorded trace count, row i being the persisted samples of
\* trace i, and obtains them by reading the samples dataset in consecutive
\* chunks of at most 1000 rows that cover the indices 0..count-1 exactly
\* once each, also when the count is not a multiple of 1000; for a count
\* of 0 it returns an empty array.
C38_ToMatrixChunks ==
    [][(mode = "READING" /\ ToMatrix) =>
         LET n  == Count(Bound)
             ch == ret'.touched
         IN /\ res' = "ok"
            /\ Len(ret'.val) = n
            /\ \A i \in 1..n : ret'.val[i] = Bound.rows[i]
            /\ (n = 0) = (ch = <<>>)
            /\ \A c \in DOMAIN ch :
                  /\ ch[c][1] = (IF c = 1 THEN 0 ELSE ch[c - 1][2])
                  /\ ch[c][2] - ch[c][1] \in 1..1000
                  /\ (c = Len(ch)) => ch[c][2] = n]_vars

\* a series of 2001 traces was turned into a matrix in three chunks
C38_Witness ==
    /\ op = "to_matrix" /\ res = "ok" /\ mode = "READING"
    /\ Len(ret.val) = 2001 /\ Len(ret.touched) = 3
    /\ ret.touched[3] = <<2000, 2001>>

\* C39: in WRITING mode add_trace flushes the backend exactly when the
\* recorded trace count after the write is a multiple of the auto-flush
\* interval N, and N is configurable for the writing session (default 50):
\* a session can be opened with N = 3, and then flushes after the 3rd, 6th
\* and 9th trace.
C39_FlushEveryN ==
    [][/\ \A e \in Exps, n \in Intervals :
            (mode = "MEMORY" /\ h5file = NoFile /\ OpenForWritingEvery(e, n))
            => res' = "ok" /\ mode' = "WRITING"
       /\ \A t \in ValuedTraces :
            (mode = "WRITING" /\ AddTrace(t) /\ res' = "ok")
            => (ret'.flushed = 1) = (GroupAt(disk', h5group).tc % 50 = 0)]_vars

====
